---- MODULE Spec2Model ----
(***************************************************************************)
(* RemoteKernelManager (remote_kernel_provider/manager.py): the kernel     *)
(* lifecycle coordinator.  One coordinator instance; every method is a     *)
(* sequence of steps, one step per call the method makes on a              *)
(* collaborator (lifecycle manager, kernel handle, parent, session         *)
(* manager).  A collaborator call either returns or raises; a raise ends   *)
(* the method at that step.  The owner issues one method at a time         *)
(* (pc = "idle" between methods).                                          *)
(***************************************************************************)
EXTENDS Integers, Sequences, FiniteSets, TLC

\* ---- bounds ----
MaxStarts == 2      \* start_kernel() calls per behaviour (lifecycle manager instances)
MaxConn == 1        \* largest connection count in parent._kernel_connections
MaxLogged == 3      \* the warning counter saturates here

\* ---- values ----
None == -1          \* Python None, for fields that otherwise hold an integer
SIGINT == 2
SIGUSR1 == 10
SIGTERM == 15
NSIG == 65

Signums == {SIGINT, SIGUSR1, SIGTERM}

\* kernel ids the parent's connection table may hold; this coordinator's is 1
KernelIds == {1, 2}

\* lifecycle_info as given to the constructor: its class_name, or no
\* lifecycle_info at all.  "Unresolvable" is a class_name import_item cannot import.
ClassNames == {"Local", "Remote", "Unresolvable"}
NoLifecycleInfo == "NoLifecycleInfo"

\* kernel_spec.env.get('EG_ALTERNATE_SIGINT'): absent, empty, or a name
NoAlt == "NoAlt"
AltNames == {NoAlt, "", "SIGUSR1", "NSIG", "getsignal", "SIGBOGUS"}

\* The attributes of Python's signal module that getattr(signal, name) finds.
\* Signal names are enum members (Python 3), NSIG is a plain int, getsignal
\* is a function; any other name is missing.
SignalModule(name) ==
    CASE name = "SIGUSR1" -> [kind |-> "enum", value |-> SIGUSR1]
      [] name = "NSIG" -> [kind |-> "int", value |-> NSIG]
      [] name = "getsignal" -> [kind |-> "function", value |-> None]
      [] OTHER -> [kind |-> "missing", value |-> None]

\* the try block of signal(): getattr raises AttributeError for a missing
\* name, sig_value.value raises it for an attribute that has no value
RaisesAttributeError(name) == SignalModule(name).kind \in {"missing", "function"}

\* parent._kernel_connections: kernel_id -> number of client connections
ConnMaps == UNION {[S -> 0..MaxConn] : S \in SUBSET KernelIds}

\* dict.get(key, default)
DictGet(d, key, default) == IF key \in DOMAIN d THEN d[key] ELSE default

\* one call made on a collaborator
Call(fn, arg) == [fn |-> fn, arg |-> arg]

Min(a, b) == IF a < b THEN a ELSE b

\* dict.update(u) on a copy of d
DictUpdate(d, u) ==
    [k \in DOMAIN d \cup DOMAIN u |-> IF k \in DOMAIN u THEN u[k] ELSE d[k]]

\* all dicts with keys from K and values from V
Dicts(K, V) == UNION {[S -> V] : S \in SUBSET K}

\* ---- environment values: strings, written as numbers ----
EnvValues == {1, 2}         \* values a kernelspec or a caller supplies
Uuid4Strings == {1, 3}      \* the strings uuid.UUID(s, version=4) accepts
NewUuid == 3                \* str(uuid.uuid4())
OsUser == 4                 \* getpass.getuser()

\* keys of app_config that hold an allow-list, and the list they hold
ConfigKeys == {"env_process_whitelist", "env_whitelist"}
AllowLists == {{"PATH"}}

\* key.startswith('KERNEL_')
StartsWithKernel(key) == key \in {"KERNEL_ID", "KERNEL_USERNAME", "KERNEL_LANG"}

VARIABLES
    kernel,              \* self.kernel: None or the handle launch_process returned
    lifecycle_manager,   \* self.lifecycle_manager: None or a lifecycle manager instance
    sigint_value,        \* self.sigint_value: None or a signal number
    restarting,          \* self.restarting
    lifecycle_info,      \* class_name of self.lifecycle_info, or NoLifecycleInfo
    alt_sigint,          \* kernel_spec.env.get('EG_ALTERNATE_SIGINT')
    kernel_id,           \* self.kernel_id
    kernel_connections,  \* self.parent._kernel_connections
    activity_stream,     \* self._activity_stream is set
    instances,           \* lifecycle manager instances created so far: their class
    warnings,            \* log.warning calls of signal()
    pc,                  \* position inside the method being executed
    op,                  \* the method called last
    arg,                 \* its argument: signum of signal(), now of restart_kernel()
    err,                 \* the exception the method raised, "none" so far
    calls,               \* calls the method has made on collaborators, in order
    \* -- connection file --
    response_address,    \* self.response_address: None or an address
    remote_address,      \* the address a remote lifecycle manager establishes, None if none
    ports,               \* the five port fields: None or the batch select_ports returned
    \* -- identity and environment --
    kernel_spec_env,     \* kernel_spec.env (without EG_ALTERNATE_SIGINT)
    legacy_env,          \* kwargs.get('env', {})
    kernel_params_env,   \* kernel_params.get('env', {})
    app_config,          \* self.app_config: the allow-lists it holds
    env,                 \* self.env
    kernel_username,     \* self.kernel_username
    returned,            \* what the last get_kernel_id / get_kernel_username returned
    \* -- command --
    argv,                \* kernel_spec.argv
    kernel_params,       \* the other keys of kernel_params, with the kind of their value
    kernel_cmd,          \* what format_kernel_cmd returned
    \* -- provider --
    metadata,            \* kernelspec.metadata
    supported_process_classes,
    expected_process_class,
    proxy_info,          \* what _get_proxy_info returned
    provider_warnings,   \* log.warn calls of _get_proxy_info
    \* -- processes --
    exited,              \* the process behind the kernel handle has exited
    launch_args,         \* what launch_process was called with last
    spawn,               \* the arguments of launch_kernel
    spawned,             \* what launch_kernel did: Popen calls, log, result
    lm_cleanups          \* per lifecycle manager instance: its cleanup() calls so far

connVars == <<response_address, remote_address, ports>>

envVars == <<kernel_spec_env, legacy_env, kernel_params_env, app_config, env,
             kernel_username, returned>>

cmdVars == <<argv, kernel_params, kernel_cmd>>

providerVars == <<metadata, supported_process_classes, expected_process_class,
                  proxy_info, provider_warnings>>

procVars == <<exited, launch_args, spawn, spawned, lm_cleanups>>

\* the fields of the coordinator
coordinator == <<kernel, lifecycle_manager, sigint_value, restarting,
                 lifecycle_info, alt_sigint, kernel_id, activity_stream,
                 response_address, ports, env, kernel_username>>

vars == <<kernel, lifecycle_manager, sigint_value, restarting, lifecycle_info,
          alt_sigint, kernel_id, kernel_connections, activity_stream, instances,
          warnings, pc, op, arg, err, calls, connVars, envVars, cmdVars,
          providerVars, procVars>>

\* isinstance(lm, RemoteKernelLifecycleManager); isinstance(None, ...) is False
IsRemote(lm) == lm # None /\ instances[lm] = "Remote"

IsLocal(lm) == lm # None /\ instances[lm] = "Local"

\* no connection file written, no response address
ConnInit ==
    /\ response_address = None
    /\ ports = None

\* a coordinator constructed from an empty kernelspec env without overrides
EnvInit ==
    /\ kernel_spec_env = <<>>
    /\ legacy_env = <<>>
    /\ kernel_params_env = <<>>
    /\ app_config = <<>>
    /\ env = [KERNEL_ID |-> 1, KERNEL_USERNAME |-> OsUser]
    /\ kernel_username = OsUser
    /\ returned = None

\* no command formatted
CmdInit ==
    /\ argv = <<>>
    /\ kernel_params = <<>>
    /\ kernel_cmd = <<>>

\* launch_kernel not called
NoSpawn ==
    [cmd |-> None, stdin |-> None, stdout |-> None, stderr |-> None,
     env |-> [none |-> TRUE, map |-> <<>>], cwd |-> None, kw |-> <<>>]

NotSpawned ==
    [popen |-> <<>>, log |-> <<>>, raised |-> "none", proc |-> None,
     stdin_closed |-> FALSE]

\* no process watched, nothing launched
ProcInit ==
    /\ exited = FALSE
    /\ launch_args = [kernel_cmd |-> <<>>, env |-> <<>>]
    /\ spawn = NoSpawn
    /\ spawned = NotSpawned
    /\ lm_cleanups = <<>>

\* no provider involved
ProviderInit ==
    /\ metadata = <<>>
    /\ supported_process_classes = <<>>
    /\ expected_process_class = ""
    /\ proxy_info = [none |-> TRUE, info |-> <<>>]
    /\ provider_warnings = 0

\* __init__
Init ==
    /\ kernel = None
    /\ lifecycle_manager = None
    /\ sigint_value = None
    /\ restarting = FALSE
    /\ lifecycle_info \in ClassNames \cup {NoLifecycleInfo}
    /\ alt_sigint \in AltNames
    /\ kernel_id = 1
    /\ kernel_connections \in ConnMaps
    /\ activity_stream = FALSE
    /\ instances = <<>>
    /\ warnings = 0
    /\ pc = "idle"
    /\ op = "init"
    /\ arg = 0
    /\ err = "none"
    /\ calls = <<>>
    /\ remote_address = None
    /\ ConnInit
    /\ EnvInit
    /\ CmdInit
    /\ ProviderInit
    /\ ProcInit

\* a method is entered: nothing called yet, nothing raised yet
Enter(name, a) ==
    /\ pc = "idle"
    /\ op' = name
    /\ arg' = a

\* ---------------- command templating ----------------

MaxArgv == 2     \* tokens in a kernelspec's argv

\* a token is a string, held as the pieces the pattern of line 233 sees:
\* text outside braces, and {text}
Lit(t) == [kind |-> "lit", text |-> t]
Brace(t) == [kind |-> "brace", text |-> t]

\* the tokens of the kernelspecs considered
Tokens ==
    { <<Lit("python")>>,
      <<Lit("k")>>,
      <<Brace("kernel_id")>>,
      <<Lit("--addr="), Brace("response_address")>>,
      <<Brace("memory")>>,
      <<Brace("zz")>>,
      <<Brace("a-b")>> }

\* the values a namespace entry can have
Str(t) == [type |-> "str", text |-> t, items |-> <<>>]
Number(t) == [type |-> "int", text |-> t, items |-> <<>>]
List(l) == [type |-> "list", text |-> "", items |-> l]
NoneValue == [type |-> "NoneType", text |-> "", items |-> <<>>]

\* the kernel_params a caller passes
ParamDicts ==
    { DictUpdate(a, b) :
        a \in {<<>>} \cup {[extra_arguments |-> List(l)] : l \in {<<>>, << <<Brace("zz")>> >>}},
        b \in {<<>>} \cup {[memory |-> v] : v \in {Str("4g"), Number("4")}} }

\* line 233: [A-Za-z0-9_]+ between the braces
IsIdentifier(t) == t \notin {"a-b", ""}

\* line 212: the names of the running interpreter
PythonNames == {<<Lit("python")>>, <<Lit("python3")>>, <<Lit("python3.x")>>}

\* lines 209-210
Cmd ==
    argv \o DictGet(kernel_params, "extra_arguments", List(<<>>)).items

\* lines 212-221
WithExecutable(cmd) ==
    IF cmd # <<>> /\ cmd[1] \in PythonNames
    THEN [cmd EXCEPT ![1] = <<Lit("sys.executable")>>]
    ELSE cmd

\* lines 223-231
Namespace ==
    DictUpdate([prefix |-> Str("sys.prefix"),
                resource_dir |-> Str("resource_dir"),
                response_address |-> IF response_address = None THEN NoneValue
                                     ELSE Str(ToString(response_address)),
                port_range |-> NoneValue,
                kernel_id |-> Str(ToString(kernel_id))],
               kernel_params)

\* a piece the pattern matches
Matched(p) == p.kind = "brace" /\ IsIdentifier(p.text)

\* lines 235-237: what replaces a match
from_ns(p) == DictGet(Namespace, p.text, Str("verbatim"))

\* re.sub joins what from_ns returns: a str as it is, None as nothing,
\* anything else is a TypeError
Joinable(p) ==
    (Matched(p) /\ p.text \in DOMAIN Namespace) => from_ns(p).type \in {"str", "NoneType"}

\* pat.sub(from_ns, arg)
Sub(token) ==
    [i \in 1..Len(token) |->
        IF Matched(token[i]) /\ token[i].text \in DOMAIN Namespace
        THEN Lit(from_ns(token[i]).text)
        ELSE token[i]]

\* line 210 or line 239 raises TypeError
FormatRaises ==
    \/ DictGet(kernel_params, "extra_arguments", List(<<>>)).type # "list"
    \/ \E i \in 1..Len(Cmd) : \E j \in 1..Len(Cmd[i]) : ~Joinable(Cmd[i][j])

\* line 239: the list format_kernel_cmd returns
Formatted == [i \in 1..Len(Cmd) |-> Sub(WithExecutable(Cmd)[i])]

\* lines 207-239
format_kernel_cmd ==
    /\ Enter("format_kernel_cmd", 0)
    /\ calls' = <<>>
    /\ pc' = "idle"
    /\ IF FormatRaises
       THEN err' = "TypeError" /\ kernel_cmd' = kernel_cmd
       ELSE err' = "none" /\ kernel_cmd' = Formatted
    /\ UNCHANGED <<kernel, lifecycle_manager, sigint_value, restarting,
                   lifecycle_info, alt_sigint, kernel_id, kernel_connections,
                   activity_stream, instances, warnings>>
    /\ UNCHANGED <<argv, kernel_params>>
    /\ UNCHANGED <<connVars, envVars, providerVars, procVars>>

\* ---------------- start_kernel ----------------

\* the constructor of a lifecycle manager: a remote one may establish the
\* address its kernel reports back to and store it in the coordinator
LifecycleManagerInit(class_name) ==
    IF class_name = "Remote" /\ remote_address # None
    THEN remote_address
    ELSE response_address

\* start_kernel that instantiates whatever class_name says
StartKernelBody_attach_unresolved ==
    /\ calls' = <<>>
    /\ IF lifecycle_info = NoLifecycleInfo
       THEN /\ err' = "AttributeError"
            /\ pc' = "idle"
            /\ UNCHANGED <<lifecycle_manager, instances, response_address>>
       ELSE /\ instances' = Append(instances, lifecycle_info)
            /\ lifecycle_manager' = Len(instances) + 1
            /\ response_address' = LifecycleManagerInit(lifecycle_info)
            /\ err' = "none"
            /\ pc' = "start_format"
    /\ UNCHANGED <<kernel, sigint_value, restarting, lifecycle_info, alt_sigint,
                   kernel_id, kernel_connections, activity_stream, warnings>>
    /\ UNCHANGED <<remote_address, ports, envVars, cmdVars, providerVars, procVars>>

\* lines 88-93: resolve the class, instantiate it and attach the instance
StartKernelBody ==
    /\ calls' = <<>>
    /\ IF lifecycle_info = NoLifecycleInfo
       THEN /\ err' = "AttributeError"
            /\ pc' = "idle"
            /\ UNCHANGED <<lifecycle_manager, instances, response_address>>
       ELSE IF lifecycle_info = "Unresolvable"
       THEN /\ err' = "ImportError"
            /\ pc' = "idle"
            /\ UNCHANGED <<lifecycle_manager, instances, response_address>>
       ELSE /\ instances' = Append(instances, lifecycle_info)
            /\ lifecycle_manager' = Len(instances) + 1
            /\ response_address' = LifecycleManagerInit(lifecycle_info)
            /\ err' = "none"
            /\ pc' = "start_format"
    /\ UNCHANGED <<kernel, sigint_value, restarting, lifecycle_info, alt_sigint,
                   kernel_id, kernel_connections, activity_stream, warnings>>
    /\ UNCHANGED <<remote_address, ports, envVars, cmdVars, providerVars, procVars>>

\* lines 76-93
start_kernel ==
    /\ Enter("start_kernel", 0)
    /\ Len(instances) < MaxStarts
    /\ StartKernelBody

\* line 96: kernel_cmd = self.format_kernel_cmd()
start_kernel_format_kernel_cmd ==
    /\ pc = "start_format"
    /\ IF FormatRaises
       THEN err' = "TypeError" /\ kernel_cmd' = kernel_cmd /\ pc' = "idle"
       ELSE err' = "none" /\ kernel_cmd' = Formatted /\ pc' = "start_launch"
    /\ UNCHANGED <<kernel, lifecycle_manager, sigint_value, restarting,
                   lifecycle_info, alt_sigint, kernel_id, kernel_connections,
                   activity_stream, instances, warnings, op, arg, calls>>
    /\ UNCHANGED <<argv, kernel_params>>
    /\ UNCHANGED <<connVars, envVars, providerVars, procVars>>

\* start_kernel that hands launch_process the command as the kernelspec has it
start_kernel_launch_process_raw_command(ok) ==
    /\ pc = "start_launch"
    /\ calls' = Append(calls, Call("launch_process", lifecycle_manager))
    /\ launch_args' = [kernel_cmd |-> Cmd, env |-> env]
    /\ IF ok
       THEN kernel' = lifecycle_manager /\ err' = "none"
       ELSE kernel' = kernel /\ err' = "CollaboratorError"
    /\ pc' = IF ok /\ op = "RemoteKernelManager.launch" THEN "launch_return" ELSE "idle"
    /\ UNCHANGED <<lifecycle_manager, sigint_value, restarting, lifecycle_info,
                   alt_sigint, kernel_id, kernel_connections, activity_stream,
                   instances, warnings, op, arg>>
    /\ exited' = IF ok THEN FALSE ELSE exited
    /\ UNCHANGED <<spawn, spawned, lm_cleanups>>
    /\ UNCHANGED <<connVars, envVars, cmdVars, providerVars>>

\* line 99: self.kernel = self.lifecycle_manager.launch_process(kernel_cmd,
\* env=self.env); launch() goes on to its return statement
start_kernel_launch_process(ok) ==
    /\ pc = "start_launch"
    /\ calls' = Append(calls, Call("launch_process", lifecycle_manager))
    /\ launch_args' = [kernel_cmd |-> kernel_cmd, env |-> env]
    /\ IF ok
       THEN kernel' = lifecycle_manager /\ err' = "none"
       ELSE kernel' = kernel /\ err' = "CollaboratorError"
    /\ pc' = IF ok /\ op = "RemoteKernelManager.launch" THEN "launch_return" ELSE "idle"
    /\ UNCHANGED <<lifecycle_manager, sigint_value, restarting, lifecycle_info,
                   alt_sigint, kernel_id, kernel_connections, activity_stream,
                   instances, warnings, op, arg>>
    /\ exited' = IF ok THEN FALSE ELSE exited
    /\ UNCHANGED <<spawn, spawned, lm_cleanups>>
    /\ UNCHANGED <<connVars, envVars, cmdVars, providerVars>>

\* ---------------- signal / interrupt ----------------

\* lines 126-134: the value the first interrupt caches
ResolveSigint(signum) ==
    IF alt_sigint # NoAlt /\ alt_sigint # "" /\ ~RaisesAttributeError(alt_sigint)
    THEN SignalModule(alt_sigint).value
    ELSE signum

\* lines 138-142: the first interrupt logs a warning
WarnsOnResolve ==
    alt_sigint # NoAlt /\ alt_sigint # "" /\ RaisesAttributeError(alt_sigint)

\* signal() without the test for a kernel
SignalBody_unguarded(signum, ok) ==
    /\ calls' = <<Call("send_signal", signum)>>
    /\ err' = IF ok THEN "none" ELSE "CollaboratorError"
    /\ UNCHANGED <<sigint_value, warnings>>

\* signal() that falls back to the default on every interrupt after the first
SignalBody_default_each_time(signum, ok) ==
    IF kernel # None
    THEN /\ IF signum = SIGINT
            THEN /\ sigint_value' = IF sigint_value = None
                                    THEN ResolveSigint(signum)
                                    ELSE signum
                 /\ warnings' = IF sigint_value = None /\ WarnsOnResolve
                                THEN Min(warnings + 1, MaxLogged)
                                ELSE warnings
                 /\ calls' = <<Call("send_signal", sigint_value')>>
            ELSE /\ calls' = <<Call("send_signal", signum)>>
                 /\ UNCHANGED <<sigint_value, warnings>>
         /\ err' = IF ok THEN "none" ELSE "CollaboratorError"
    ELSE /\ err' = "RuntimeError"
         /\ calls' = <<>>
         /\ UNCHANGED <<sigint_value, warnings>>

\* signal() that resolves the alternate name on every interrupt
SignalBody_resolve_each_time(signum, ok) ==
    IF kernel # None
    THEN /\ IF signum = SIGINT
            THEN /\ sigint_value' = ResolveSigint(signum)
                 /\ warnings' = IF WarnsOnResolve
                                THEN Min(warnings + 1, MaxLogged)
                                ELSE warnings
                 /\ calls' = <<Call("send_signal", sigint_value')>>
            ELSE /\ calls' = <<Call("send_signal", signum)>>
                 /\ UNCHANGED <<sigint_value, warnings>>
         /\ err' = IF ok THEN "none" ELSE "CollaboratorError"
    ELSE /\ err' = "RuntimeError"
         /\ calls' = <<>>
         /\ UNCHANGED <<sigint_value, warnings>>

\* signal() that sends the interrupt signal whatever signum is
SignalBody_remap_all(signum, ok) ==
    IF kernel # None
    THEN /\ sigint_value' = IF sigint_value = None
                            THEN ResolveSigint(SIGINT)
                            ELSE sigint_value
         /\ warnings' = IF sigint_value = None /\ WarnsOnResolve
                        THEN Min(warnings + 1, MaxLogged)
                        ELSE warnings
         /\ calls' = <<Call("send_signal", sigint_value')>>
         /\ err' = IF ok THEN "none" ELSE "CollaboratorError"
    ELSE /\ err' = "RuntimeError"
         /\ calls' = <<>>
         /\ UNCHANGED <<sigint_value, warnings>>

\* lines 119-147, the body of signal(signum); ok: send_signal returns
SignalBody(signum, ok) ==
    IF kernel # None
    THEN /\ IF signum = SIGINT
            THEN /\ sigint_value' = IF sigint_value = None
                                    THEN ResolveSigint(signum)
                                    ELSE sigint_value
                 /\ warnings' = IF sigint_value = None /\ WarnsOnResolve
                                THEN Min(warnings + 1, MaxLogged)
                                ELSE warnings
                 /\ calls' = <<Call("send_signal", sigint_value')>>
            ELSE /\ calls' = <<Call("send_signal", signum)>>
                 /\ UNCHANGED <<sigint_value, warnings>>
         /\ err' = IF ok THEN "none" ELSE "CollaboratorError"
    ELSE /\ err' = "RuntimeError"
         /\ calls' = <<>>
         /\ UNCHANGED <<sigint_value, warnings>>

signal(signum, ok) ==
    /\ Enter("signal", signum)
    /\ SignalBody(signum, ok)
    /\ pc' = "idle"
    /\ UNCHANGED <<kernel, lifecycle_manager, restarting, lifecycle_info,
                   alt_sigint, kernel_id, kernel_connections, activity_stream,
                   instances>>
    /\ UNCHANGED <<connVars, envVars, cmdVars, providerVars, procVars>>

\* line 157
interrupt(ok) ==
    /\ Enter("interrupt", SIGINT)
    /\ SignalBody(SIGINT, ok)
    /\ pc' = "idle"
    /\ UNCHANGED <<kernel, lifecycle_manager, restarting, lifecycle_info,
                   alt_sigint, kernel_id, kernel_connections, activity_stream,
                   instances>>
    /\ UNCHANGED <<connVars, envVars, cmdVars, providerVars, procVars>>

\* ---------------- kill ----------------

\* kill() that leaves the listener running
kill_no_listener(ok) ==
    /\ Enter("kill", 0)
    /\ calls' = <<>>
    /\ err' = "none"
    /\ pc' = "kill_kernel"
    /\ UNCHANGED <<kernel, lifecycle_manager, sigint_value, restarting,
                   lifecycle_info, alt_sigint, kernel_id, kernel_connections,
                   activity_stream, instances, warnings>>
    /\ UNCHANGED <<connVars, envVars, cmdVars, providerVars, procVars>>

\* kill() that lets go of the lifecycle manager
kill_detaching(ok) ==
    /\ Enter("kill", 0)
    /\ IF IsRemote(lifecycle_manager)
       THEN /\ calls' = <<Call("shutdown_listener", lifecycle_manager)>>
            /\ err' = IF ok THEN "none" ELSE "CollaboratorError"
            /\ pc' = IF ok THEN "kill_kernel" ELSE "idle"
       ELSE /\ calls' = <<>>
            /\ err' = "none"
            /\ pc' = "kill_kernel"
    /\ lifecycle_manager' = None
    /\ UNCHANGED <<kernel, sigint_value, restarting,
                   lifecycle_info, alt_sigint, kernel_id, kernel_connections,
                   activity_stream, instances, warnings>>
    /\ UNCHANGED <<connVars, envVars, cmdVars, providerVars, procVars>>

\* lines 170-172: stop the listener of a remote lifecycle manager
kill(ok) ==
    /\ Enter("kill", 0)
    /\ IF IsRemote(lifecycle_manager)
       THEN /\ calls' = <<Call("shutdown_listener", lifecycle_manager)>>
            /\ err' = IF ok THEN "none" ELSE "CollaboratorError"
            /\ pc' = IF ok THEN "kill_kernel" ELSE "idle"
       ELSE /\ calls' = <<>>
            /\ err' = "none"
            /\ pc' = "kill_kernel"
    /\ UNCHANGED <<kernel, lifecycle_manager, sigint_value, restarting,
                   lifecycle_info, alt_sigint, kernel_id, kernel_connections,
                   activity_stream, instances, warnings>>
    /\ UNCHANGED <<connVars, envVars, cmdVars, providerVars, procVars>>

\* line 174: self.kernel.kill(); None has no attribute kill
kill_kernel_kill(ok) ==
    /\ pc = "kill_kernel"
    /\ IF kernel = None
       THEN /\ err' = "AttributeError"
            /\ calls' = calls
       ELSE /\ calls' = Append(calls, Call("kill", kernel))
            /\ err' = IF ok THEN "none" ELSE "CollaboratorError"
    /\ pc' = "idle"
    /\ UNCHANGED <<kernel, lifecycle_manager, sigint_value, restarting,
                   lifecycle_info, alt_sigint, kernel_id, kernel_connections,
                   activity_stream, instances, warnings, op, arg>>
    /\ UNCHANGED <<connVars, envVars, cmdVars, providerVars, procVars>>

\* ---------------- cleanup ----------------

\* cleanup() without the test for a lifecycle manager
cleanup_unguarded(ok) ==
    /\ Enter("cleanup", 0)
    /\ IF IsRemote(lifecycle_manager)
       THEN /\ calls' = <<Call("shutdown_listener", lifecycle_manager)>>
            /\ err' = IF ok THEN "none" ELSE "CollaboratorError"
            /\ pc' = IF ok THEN "cleanup_lifecycle_manager" ELSE "idle"
       ELSE /\ calls' = <<>>
            /\ err' = "none"
            /\ pc' = "cleanup_lifecycle_manager"
    /\ UNCHANGED <<kernel, lifecycle_manager, sigint_value, restarting,
                   lifecycle_info, alt_sigint, kernel_id, kernel_connections,
                   activity_stream, instances, warnings>>
    /\ UNCHANGED <<connVars, envVars, cmdVars, providerVars, procVars>>

\* cleanup() that releases a remote lifecycle manager with its listener running
cleanup_no_listener(ok) ==
    /\ Enter("cleanup", 0)
    /\ calls' = <<>>
    /\ err' = "none"
    /\ pc' = IF lifecycle_manager = None THEN "idle" ELSE "cleanup_lifecycle_manager"
    /\ UNCHANGED <<kernel, lifecycle_manager, sigint_value, restarting,
                   lifecycle_info, alt_sigint, kernel_id, kernel_connections,
                   activity_stream, instances, warnings>>
    /\ UNCHANGED <<connVars, envVars, cmdVars, providerVars, procVars>>

\* lines 183-185: nothing to do without a lifecycle manager; stop the
\* listener of a remote one
cleanup(ok) ==
    /\ Enter("cleanup", 0)
    /\ IF lifecycle_manager = None
       THEN /\ calls' = <<>>
            /\ err' = "none"
            /\ pc' = "idle"
       ELSE IF IsRemote(lifecycle_manager)
       THEN /\ calls' = <<Call("shutdown_listener", lifecycle_manager)>>
            /\ err' = IF ok THEN "none" ELSE "CollaboratorError"
            /\ pc' = IF ok THEN "cleanup_lifecycle_manager" ELSE "idle"
       ELSE /\ calls' = <<>>
            /\ err' = "none"
            /\ pc' = "cleanup_lifecycle_manager"
    /\ UNCHANGED <<kernel, lifecycle_manager, sigint_value, restarting,
                   lifecycle_info, alt_sigint, kernel_id, kernel_connections,
                   activity_stream, instances, warnings>>
    /\ UNCHANGED <<connVars, envVars, cmdVars, providerVars, procVars>>

\* the record of the cleanup() calls received by the lifecycle managers:
\* none, one, or more than one for each instance
Invoked(log, lm) ==
    (lm :> (IF DictGet(log, lm, 0) = 0 THEN 1 ELSE 2)) @@ log

\* line 187: self.lifecycle_manager.cleanup()
lifecycle_manager_cleanup(ok) ==
    /\ pc = "cleanup_lifecycle_manager"
    /\ calls' = Append(calls, Call("cleanup", lifecycle_manager))
    /\ err' = IF ok THEN "none" ELSE "CollaboratorError"
    /\ pc' = IF ok THEN "cleanup_detach" ELSE "idle"
    /\ UNCHANGED <<kernel, lifecycle_manager, sigint_value, restarting,
                   lifecycle_info, alt_sigint, kernel_id, kernel_connections,
                   activity_stream, instances, warnings, op, arg>>
    /\ UNCHANGED <<exited, launch_args, spawn, spawned>>
    /\ UNCHANGED <<connVars, envVars, cmdVars, providerVars>>

\* line 187, the calls the lifecycle managers received left unrecorded
cleanup_lifecycle_manager_cleanup(ok) ==
    /\ lifecycle_manager_cleanup(ok)
    /\ UNCHANGED lm_cleanups

\* line 187, with the call recorded against the instance that received it
cleanup_lifecycle_manager_cleanup_recorded(ok) ==
    /\ lifecycle_manager_cleanup(ok)
    /\ lm_cleanups' = Invoked(lm_cleanups, lifecycle_manager)

\* a detach that lets go of the kernel handle too
cleanup_detach_dropping_kernel ==
    /\ pc = "cleanup_detach"
    /\ lifecycle_manager' = None
    /\ kernel' = None
    /\ pc' = "idle"
    /\ UNCHANGED <<sigint_value, restarting, lifecycle_info, alt_sigint,
                   kernel_id, kernel_connections, activity_stream, instances,
                   warnings, op, arg, err, calls>>
    /\ UNCHANGED <<connVars, envVars, cmdVars, providerVars, procVars>>

\* line 188: self.lifecycle_manager = None
cleanup_detach ==
    /\ pc = "cleanup_detach"
    /\ lifecycle_manager' = None
    /\ pc' = "idle"
    /\ UNCHANGED <<kernel, sigint_value, restarting, lifecycle_info, alt_sigint,
                   kernel_id, kernel_connections, activity_stream, instances,
                   warnings, op, arg, err, calls>>
    /\ UNCHANGED <<connVars, envVars, cmdVars, providerVars, procVars>>

\* ---------------- restart_kernel ----------------

\* restart_kernel that does not raise the flag
restart_kernel_unflagged(now) ==
    /\ Enter("restart_kernel", IF now THEN 1 ELSE 0)
    /\ restarting' = restarting
    /\ calls' = <<>>
    /\ err' = "none"
    /\ pc' = "restart_gate"
    /\ UNCHANGED <<kernel, lifecycle_manager, sigint_value, lifecycle_info,
                   alt_sigint, kernel_id, kernel_connections, activity_stream,
                   instances, warnings>>
    /\ UNCHANGED <<connVars, envVars, cmdVars, providerVars, procVars>>

\* line 273: self.restarting = True
restart_kernel(now) ==
    /\ Enter("restart_kernel", IF now THEN 1 ELSE 0)
    /\ restarting' = TRUE
    /\ calls' = <<>>
    /\ err' = "none"
    /\ pc' = "restart_gate"
    /\ UNCHANGED <<kernel, lifecycle_manager, sigint_value, lifecycle_info,
                   alt_sigint, kernel_id, kernel_connections, activity_stream,
                   instances, warnings>>
    /\ UNCHANGED <<connVars, envVars, cmdVars, providerVars, procVars>>

\* the gate without its return: the restart goes on after the shutdown
restart_kernel_gate_fallthrough(ok) ==
    /\ pc = "restart_gate"
    /\ IF IsRemote(lifecycle_manager) /\ arg = 1
       THEN IF DictGet(kernel_connections, kernel_id, 0) = 0
            THEN /\ calls' = calls \o <<Call("_kernel_connections.get", kernel_id),
                                        Call("shutdown_kernel", kernel_id)>>
                 /\ err' = IF ok THEN "none" ELSE "CollaboratorError"
                 /\ pc' = IF ok THEN "restart_super" ELSE "idle"
            ELSE /\ calls' = Append(calls, Call("_kernel_connections.get", kernel_id))
                 /\ err' = "none"
                 /\ pc' = "restart_super"
       ELSE /\ calls' = calls
            /\ err' = "none"
            /\ pc' = "restart_super"
    /\ UNCHANGED <<kernel, lifecycle_manager, sigint_value, restarting,
                   lifecycle_info, alt_sigint, kernel_id, kernel_connections,
                   activity_stream, instances, warnings, op, arg>>
    /\ UNCHANGED <<connVars, envVars, cmdVars, providerVars, procVars>>

\* the gate applied to every backend
restart_kernel_gate_any_backend(ok) ==
    /\ pc = "restart_gate"
    /\ IF arg = 1
       THEN IF DictGet(kernel_connections, kernel_id, 0) = 0
            THEN /\ calls' = calls \o <<Call("_kernel_connections.get", kernel_id),
                                        Call("shutdown_kernel", kernel_id)>>
                 /\ err' = IF ok THEN "none" ELSE "CollaboratorError"
                 /\ pc' = "idle"
            ELSE /\ calls' = Append(calls, Call("_kernel_connections.get", kernel_id))
                 /\ err' = "none"
                 /\ pc' = "restart_super"
       ELSE /\ calls' = calls
            /\ err' = "none"
            /\ pc' = "restart_super"
    /\ UNCHANGED <<kernel, lifecycle_manager, sigint_value, restarting,
                   lifecycle_info, alt_sigint, kernel_id, kernel_connections,
                   activity_stream, instances, warnings, op, arg>>
    /\ UNCHANGED <<connVars, envVars, cmdVars, providerVars, procVars>>

\* lines 278-284: an automatic restart of a remote kernel nobody is
\* connected to is turned into a shutdown through the parent
restart_kernel_gate(ok) ==
    /\ pc = "restart_gate"
    /\ IF IsRemote(lifecycle_manager) /\ arg = 1
       THEN IF DictGet(kernel_connections, kernel_id, 0) = 0
            THEN /\ calls' = calls \o <<Call("_kernel_connections.get", kernel_id),
                                        Call("shutdown_kernel", kernel_id)>>
                 /\ err' = IF ok THEN "none" ELSE "CollaboratorError"
                 /\ pc' = "idle"
            ELSE /\ calls' = Append(calls, Call("_kernel_connections.get", kernel_id))
                 /\ err' = "none"
                 /\ pc' = "restart_super"
       ELSE /\ calls' = calls
            /\ err' = "none"
            /\ pc' = "restart_super"
    /\ UNCHANGED <<kernel, lifecycle_manager, sigint_value, restarting,
                   lifecycle_info, alt_sigint, kernel_id, kernel_connections,
                   activity_stream, instances, warnings, op, arg>>
    /\ UNCHANGED <<connVars, envVars, cmdVars, providerVars, procVars>>

\* line 285: super().restart_kernel(now, **kwargs)
restart_kernel_super(ok) ==
    /\ pc = "restart_super"
    /\ calls' = Append(calls, Call("super.restart_kernel", arg))
    /\ err' = IF ok THEN "none" ELSE "CollaboratorError"
    /\ pc' = IF ok THEN "restart_watch" ELSE "idle"
    /\ UNCHANGED <<kernel, lifecycle_manager, sigint_value, restarting,
                   lifecycle_info, alt_sigint, kernel_id, kernel_connections,
                   activity_stream, instances, warnings, op, arg>>
    /\ UNCHANGED <<connVars, envVars, cmdVars, providerVars, procVars>>

\* restart_kernel with the session refresh inside the block for remote kernels
restart_kernel_watch_refresh_remote_only(ok) ==
    /\ pc = "restart_watch"
    /\ IF IsRemote(lifecycle_manager)
       THEN /\ calls' = Append(calls, Call("start_watching_activity", kernel_id))
            /\ activity_stream' = ok
            /\ err' = IF ok THEN "none" ELSE "CollaboratorError"
            /\ pc' = IF ok THEN "restart_refresh" ELSE "idle"
       ELSE /\ calls' = calls
            /\ activity_stream' = activity_stream
            /\ err' = "none"
            /\ pc' = "idle"
    /\ UNCHANGED <<kernel, lifecycle_manager, sigint_value, restarting,
                   lifecycle_info, alt_sigint, kernel_id, kernel_connections,
                   instances, warnings, op, arg>>
    /\ UNCHANGED <<connVars, envVars, cmdVars, providerVars, procVars>>

\* lines 286-291: a remote kernel drops its activity stream and is watched again
restart_kernel_watch(ok) ==
    /\ pc = "restart_watch"
    /\ IF IsRemote(lifecycle_manager)
       THEN /\ calls' = Append(calls, Call("start_watching_activity", kernel_id))
            /\ activity_stream' = ok
            /\ err' = IF ok THEN "none" ELSE "CollaboratorError"
            /\ pc' = IF ok THEN "restart_refresh" ELSE "idle"
       ELSE /\ calls' = calls
            /\ activity_stream' = activity_stream
            /\ err' = "none"
            /\ pc' = "restart_refresh"
    /\ UNCHANGED <<kernel, lifecycle_manager, sigint_value, restarting,
                   lifecycle_info, alt_sigint, kernel_id, kernel_connections,
                   instances, warnings, op, arg>>
    /\ UNCHANGED <<connVars, envVars, cmdVars, providerVars, procVars>>

\* lines 293-294: refresh the persisted session, then self.restarting = False
restart_kernel_refresh(ok) ==
    /\ pc = "restart_refresh"
    /\ calls' = Append(calls, Call("refresh_session", kernel_id))
    /\ err' = IF ok THEN "none" ELSE "CollaboratorError"
    /\ restarting' = IF ok THEN FALSE ELSE restarting
    /\ pc' = "idle"
    /\ UNCHANGED <<kernel, lifecycle_manager, sigint_value, lifecycle_info,
                   alt_sigint, kernel_id, kernel_connections, activity_stream,
                   instances, warnings, op, arg>>
    /\ UNCHANGED <<connVars, envVars, cmdVars, providerVars, procVars>>

\* ---------------- the parent's connection table ----------------

\* clients connect to and disconnect from kernels between the owner's calls
client_connections(m) ==
    /\ Enter("client_connections", 0)
    /\ m # kernel_connections
    /\ kernel_connections' = m
    /\ calls' = <<>>
    /\ err' = "none"
    /\ pc' = "idle"
    /\ UNCHANGED <<kernel, lifecycle_manager, sigint_value, restarting,
                   lifecycle_info, alt_sigint, kernel_id, activity_stream,
                   instances, warnings>>
    /\ UNCHANGED <<connVars, envVars, cmdVars, providerVars, procVars>>

Next ==
    \/ start_kernel
    \/ start_kernel_format_kernel_cmd
    \/ \E ok \in BOOLEAN : start_kernel_launch_process(ok)
    \/ \E s \in Signums, ok \in BOOLEAN : signal(s, ok)
    \/ \E ok \in BOOLEAN : interrupt(ok)
    \/ \E ok \in BOOLEAN : kill(ok)
    \/ \E ok \in BOOLEAN : kill_kernel_kill(ok)
    \/ \E ok \in BOOLEAN : cleanup(ok)
    \/ \E ok \in BOOLEAN : cleanup_lifecycle_manager_cleanup(ok)
    \/ cleanup_detach
    \/ \E now \in BOOLEAN : restart_kernel(now)
    \/ \E ok \in BOOLEAN : restart_kernel_gate(ok)
    \/ \E ok \in BOOLEAN : restart_kernel_super(ok)
    \/ \E ok \in BOOLEAN : restart_kernel_watch(ok)
    \/ \E ok \in BOOLEAN : restart_kernel_refresh(ok)
    \/ \E m \in ConnMaps : client_connections(m)

Spec == Init /\ [][Next]_vars

\* ---------------- write_connection_file ----------------

\* batches of five ports select_ports(5) may return
PortBatches == {1, 2}

\* lines 304-314: select five ports through the lifecycle manager unless
\* the kernel reports to a response address or a restart is going on
write_connection_file(ok, batch) ==
    /\ Enter("write_connection_file", 0)
    /\ IF (IsLocal(lifecycle_manager) \/ response_address = None) /\ ~restarting
       THEN IF lifecycle_manager = None
            THEN /\ calls' = <<>>
                 /\ err' = "AttributeError"
                 /\ ports' = ports
                 /\ pc' = "idle"
            ELSE /\ calls' = <<Call("select_ports", lifecycle_manager)>>
                 /\ err' = IF ok THEN "none" ELSE "CollaboratorError"
                 /\ ports' = IF ok THEN batch ELSE ports
                 /\ pc' = IF ok THEN "write_super" ELSE "idle"
       ELSE /\ calls' = <<>>
            /\ err' = "none"
            /\ ports' = ports
            /\ pc' = "idle"
    /\ UNCHANGED <<kernel, lifecycle_manager, sigint_value, restarting,
                   lifecycle_info, alt_sigint, kernel_id, kernel_connections,
                   activity_stream, instances, warnings>>
    /\ UNCHANGED <<response_address, remote_address, envVars, cmdVars, providerVars, procVars>>

\* line 316: super().write_connection_file()
write_connection_file_super(ok) ==
    /\ pc = "write_super"
    /\ calls' = Append(calls, Call("super.write_connection_file", 0))
    /\ err' = IF ok THEN "none" ELSE "CollaboratorError"
    /\ pc' = "idle"
    /\ UNCHANGED <<kernel, lifecycle_manager, sigint_value, restarting,
                   lifecycle_info, alt_sigint, kernel_id, kernel_connections,
                   activity_stream, instances, warnings, op, arg>>
    /\ UNCHANGED <<connVars, envVars, cmdVars, providerVars, procVars>>

\* lines 297-316 entered from the underlying restart_kernel while it runs
\* (line 285), at most once in a restart
restart_kernel_super_write_connection_file(ok, batch) ==
    /\ pc = "restart_super"
    /\ \A i \in 1..Len(calls) : calls[i].fn # "self.write_connection_file"
    /\ IF (IsLocal(lifecycle_manager) \/ response_address = None) /\ ~restarting
       THEN IF lifecycle_manager = None
            THEN /\ calls' = Append(calls, Call("self.write_connection_file", 0))
                 /\ err' = "AttributeError"
                 /\ ports' = ports
                 /\ pc' = "idle"
            ELSE /\ calls' = calls \o <<Call("self.write_connection_file", 0),
                                        Call("select_ports", lifecycle_manager)>>
                 /\ err' = IF ok THEN "none" ELSE "CollaboratorError"
                 /\ ports' = IF ok THEN batch ELSE ports
                 /\ pc' = IF ok THEN "restart_super" ELSE "idle"
       ELSE /\ calls' = Append(calls, Call("self.write_connection_file", 0))
            /\ err' = "none"
            /\ ports' = ports
            /\ pc' = "restart_super"
    /\ UNCHANGED <<kernel, lifecycle_manager, sigint_value, restarting,
                   lifecycle_info, alt_sigint, kernel_id, kernel_connections,
                   activity_stream, instances, warnings, op, arg>>
    /\ UNCHANGED <<response_address, remote_address, envVars, cmdVars, providerVars, procVars>>

\* a coordinator of a local or a remote kernel, nobody connected
InitConn ==
    /\ kernel = None
    /\ lifecycle_manager = None
    /\ sigint_value = None
    /\ restarting = FALSE
    /\ lifecycle_info \in {"Local", "Remote"}
    /\ alt_sigint = NoAlt
    /\ kernel_id = 1
    /\ kernel_connections = <<>>
    /\ activity_stream = FALSE
    /\ instances = <<>>
    /\ warnings = 0
    /\ pc = "idle"
    /\ op = "init"
    /\ arg = 0
    /\ err = "none"
    /\ calls = <<>>
    /\ remote_address \in {None, 1}
    /\ ConnInit
    /\ EnvInit
    /\ CmdInit
    /\ ProviderInit
    /\ ProcInit

NextConn ==
    \/ start_kernel
    \/ start_kernel_format_kernel_cmd
    \/ \E ok \in BOOLEAN : start_kernel_launch_process(ok)
    \/ \E ok \in BOOLEAN : kill(ok)
    \/ \E ok \in BOOLEAN : kill_kernel_kill(ok)
    \/ \E ok \in BOOLEAN : cleanup(ok)
    \/ \E ok \in BOOLEAN : cleanup_lifecycle_manager_cleanup(ok)
    \/ cleanup_detach
    \/ \E now \in BOOLEAN : restart_kernel(now)
    \/ \E ok \in BOOLEAN : restart_kernel_gate(ok)
    \/ \E ok \in BOOLEAN : restart_kernel_super(ok)
    \/ \E ok \in BOOLEAN : restart_kernel_watch(ok)
    \/ \E ok \in BOOLEAN : restart_kernel_refresh(ok)
    \/ \E ok \in BOOLEAN, batch \in PortBatches : write_connection_file(ok, batch)
    \/ \E ok \in BOOLEAN, batch \in PortBatches :
          restart_kernel_super_write_connection_file(ok, batch)
    \/ \E ok \in BOOLEAN : write_connection_file_super(ok)

\* the coordinator with its connection file
SpecConn == InitConn /\ [][NextConn]_vars

\* ---------------- identity and environment ----------------

\* names of environment variables
EnvKeys == {"KERNEL_ID", "KERNEL_USERNAME", "KERNEL_LANG", "PATH"}

\* _capture_user_overrides that lets every key through
Allowed_all(key) == TRUE

\* lines 198-200: the test a key of an override map has to pass
Allowed(key) ==
    \/ StartsWithKernel(key)
    \/ key \in DictGet(app_config, "env_process_whitelist", {})
    \/ key \in DictGet(app_config, "env_whitelist", {})

\* the dict comprehension of lines 197-200
Filtered(d) == [k \in {x \in DOMAIN d : Allowed(x)} |-> d[k]]

\* _capture_user_overrides that applies the call-time map first
capture_user_overrides_legacy_last(legacy, params) ==
    DictUpdate(Filtered(params), Filtered(legacy))

\* lines 190-205
capture_user_overrides(legacy, params) ==
    DictUpdate(Filtered(legacy), Filtered(params))

\* get_kernel_id that generates an id whatever the environment holds
get_kernel_id_regenerate(e) ==
    [ret |-> NewUuid, env |-> DictUpdate(e, [KERNEL_ID |-> NewUuid])]

\* get_kernel_id that does not write the generated id back
get_kernel_id_no_write_back(e) ==
    IF "KERNEL_ID" \in DOMAIN e
    THEN [ret |-> e["KERNEL_ID"], env |-> e]
    ELSE [ret |-> NewUuid, env |-> e]

\* lines 58-65: the id returned and the environment left behind
get_kernel_id(e) ==
    IF "KERNEL_ID" \in DOMAIN e
    THEN [ret |-> e["KERNEL_ID"], env |-> e]
    ELSE [ret |-> NewUuid, env |-> DictUpdate(e, [KERNEL_ID |-> NewUuid])]

\* lines 67-74
get_kernel_username(e) ==
    IF "KERNEL_USERNAME" \in DOMAIN e
    THEN [ret |-> e["KERNEL_USERNAME"], env |-> e]
    ELSE [ret |-> OsUser, env |-> DictUpdate(e, [KERNEL_USERNAME |-> OsUser])]

\* lines 44-45: the kernelspec env copied, then the overrides applied
MergedEnv ==
    DictUpdate(kernel_spec_env, capture_user_overrides(legacy_env, kernel_params_env))

\* __init__ that seeds self.env with the kernelspec's own dict, not a copy
init_aliased ==
    /\ pc = "new"
    /\ op' = "__init__"
    /\ env' = get_kernel_username(get_kernel_id(MergedEnv).env).env
    /\ kernel_spec_env' = env'
    /\ kernel_id' = get_kernel_id(MergedEnv).ret
    /\ kernel_username' = get_kernel_username(get_kernel_id(MergedEnv).env).ret
    /\ pc' = "idle"
    /\ UNCHANGED <<kernel, lifecycle_manager, sigint_value, restarting,
                   lifecycle_info, alt_sigint, kernel_connections,
                   activity_stream, instances, warnings, arg, err, calls>>
    /\ UNCHANGED <<legacy_env, kernel_params_env, app_config, returned>>
    /\ UNCHANGED <<connVars, cmdVars, providerVars, procVars>>

\* lines 30-49: __init__ resolves the environment and the identity
init ==
    /\ pc = "new"
    /\ op' = "__init__"
    /\ env' = get_kernel_username(get_kernel_id(MergedEnv).env).env
    /\ kernel_spec_env' = kernel_spec_env
    /\ kernel_id' = get_kernel_id(MergedEnv).ret
    /\ kernel_username' = get_kernel_username(get_kernel_id(MergedEnv).env).ret
    /\ pc' = "idle"
    /\ UNCHANGED <<kernel, lifecycle_manager, sigint_value, restarting,
                   lifecycle_info, alt_sigint, kernel_connections,
                   activity_stream, instances, warnings, arg, err, calls>>
    /\ UNCHANGED <<legacy_env, kernel_params_env, app_config, returned>>
    /\ UNCHANGED <<connVars, cmdVars, providerVars, procVars>>

\* RemoteKernelManager.get_kernel_id(self.env), called again
call_get_kernel_id ==
    /\ Enter("get_kernel_id", 0)
    /\ env' = get_kernel_id(env).env
    /\ returned' = get_kernel_id(env).ret
    /\ calls' = <<>>
    /\ err' = "none"
    /\ pc' = "idle"
    /\ UNCHANGED <<kernel, lifecycle_manager, sigint_value, restarting,
                   lifecycle_info, alt_sigint, kernel_id, kernel_connections,
                   activity_stream, instances, warnings>>
    /\ UNCHANGED <<kernel_spec_env, legacy_env, kernel_params_env, app_config,
                   kernel_username>>
    /\ UNCHANGED <<connVars, cmdVars, providerVars, procVars>>

\* RemoteKernelManager.get_kernel_username(self.env), called again
call_get_kernel_username ==
    /\ Enter("get_kernel_username", 0)
    /\ env' = get_kernel_username(env).env
    /\ returned' = get_kernel_username(env).ret
    /\ calls' = <<>>
    /\ err' = "none"
    /\ pc' = "idle"
    /\ UNCHANGED <<kernel, lifecycle_manager, sigint_value, restarting,
                   lifecycle_info, alt_sigint, kernel_id, kernel_connections,
                   activity_stream, instances, warnings>>
    /\ UNCHANGED <<kernel_spec_env, legacy_env, kernel_params_env, app_config,
                   kernel_username>>
    /\ UNCHANGED <<connVars, cmdVars, providerVars, procVars>>

\* the fields __init__ sets before it resolves the environment
Unconstructed ==
    /\ kernel = None
    /\ lifecycle_manager = None
    /\ sigint_value = None
    /\ restarting = FALSE
    /\ alt_sigint = NoAlt
    /\ kernel_id = None
    /\ kernel_connections = <<>>
    /\ activity_stream = FALSE
    /\ instances = <<>>
    /\ warnings = 0
    /\ pc = "new"
    /\ op = "new"
    /\ arg = 0
    /\ err = "none"
    /\ calls = <<>>
    /\ remote_address = None
    /\ ConnInit
    /\ env = <<>>
    /\ kernel_username = None
    /\ returned = None
    /\ CmdInit
    /\ ProviderInit
    /\ ProcInit

\* the arguments of the constructor: any kernelspec env, any override maps,
\* any allow-lists
InitEnv ==
    /\ Unconstructed
    /\ lifecycle_info = "Local"
    /\ kernel_spec_env \in Dicts({"KERNEL_ID", "KERNEL_LANG", "PATH"}, EnvValues)
    /\ legacy_env \in Dicts({"KERNEL_ID", "KERNEL_LANG", "PATH"}, EnvValues)
    /\ kernel_params_env \in Dicts({"KERNEL_ID", "KERNEL_LANG", "PATH"}, EnvValues)
    /\ app_config \in Dicts(ConfigKeys, AllowLists)

NextEnv == init

\* construction of a coordinator
SpecEnv == InitEnv /\ [][NextEnv]_vars

\* a remote kernel whose identity the kernelspec or the caller may supply
InitIdentity ==
    /\ Unconstructed
    /\ lifecycle_info = "Remote"
    /\ kernel_spec_env \in Dicts({"KERNEL_ID", "KERNEL_USERNAME"}, EnvValues)
    /\ legacy_env = <<>>
    /\ kernel_params_env \in Dicts({"KERNEL_ID", "KERNEL_USERNAME"}, EnvValues)
    /\ app_config = <<>>

NextIdentity ==
    \/ init
    \/ call_get_kernel_id
    \/ call_get_kernel_username
    \/ start_kernel
    \/ start_kernel_format_kernel_cmd
    \/ \E ok \in BOOLEAN : start_kernel_launch_process(ok)
    \/ \E ok \in BOOLEAN : kill(ok)
    \/ \E ok \in BOOLEAN : kill_kernel_kill(ok)
    \/ \E ok \in BOOLEAN : cleanup(ok)
    \/ \E ok \in BOOLEAN : cleanup_lifecycle_manager_cleanup(ok)
    \/ cleanup_detach
    \/ \E now \in BOOLEAN : restart_kernel(now)
    \/ \E ok \in BOOLEAN : restart_kernel_gate(ok)
    \/ \E ok \in BOOLEAN : restart_kernel_super(ok)
    \/ \E ok \in BOOLEAN : restart_kernel_watch(ok)
    \/ \E ok \in BOOLEAN : restart_kernel_refresh(ok)

\* construction followed by the life of the kernel
SpecIdentity == InitIdentity /\ [][NextIdentity]_vars

\* a coordinator with any kernelspec argv and any kernel_params, before and
\* after a response address was set
InitCmd ==
    /\ kernel = None
    /\ lifecycle_manager = None
    /\ sigint_value = None
    /\ restarting = FALSE
    /\ lifecycle_info = "Local"
    /\ alt_sigint = NoAlt
    /\ kernel_id \in KernelIds
    /\ kernel_connections = <<>>
    /\ activity_stream = FALSE
    /\ instances = <<>>
    /\ warnings = 0
    /\ pc = "idle"
    /\ op = "new"
    /\ arg = 0
    /\ err = "none"
    /\ calls = <<>>
    /\ remote_address = None
    /\ response_address \in {None, 1}
    /\ ports = None
    /\ EnvInit
    /\ argv \in UNION {[1..n -> Tokens] : n \in 0..MaxArgv}
    /\ kernel_params \in ParamDicts
    /\ kernel_cmd = <<>>
    /\ ProviderInit
    /\ ProcInit

NextCmd == format_kernel_cmd

\* formatting of the launch command
SpecCmd == InitCmd /\ [][NextCmd]_vars

\* ---------------- provider: lifecycle descriptor ----------------

\* class names a kernelspec can give
ProcessClasses == {"Foo", "Bar", "Baz"}

\* the process_proxy stanzas of the kernelspecs considered
Stanzas ==
    { DictUpdate(a, b) :
        a \in {<<>>} \cup {[class_name |-> c] : c \in ProcessClasses},
        b \in {<<>>, [config |-> "user"]} }

\* the metadata of the kernelspecs considered: no stanza, or one of Stanzas
Metadatas == {<<>>} \cup {[process_proxy |-> st] : st \in Stanzas}

\* what a provider class declares
SupportedLists == {<<>>, <<"Foo">>, <<"Foo", "Bar">>, <<"Bar", "Foo">>}

\* line 133: kernelspec.metadata.get('process_proxy', None)
MetadataGet ==
    IF "process_proxy" \in DOMAIN metadata
    THEN [none |-> FALSE, info |-> metadata["process_proxy"]]
    ELSE [none |-> TRUE, info |-> <<>>]

\* line 134: if proxy_info
Truthy(p) == ~p.none /\ DOMAIN p.info # {}

\* line 136
Supported(info) ==
    /\ "class_name" \in DOMAIN info
    /\ \E i \in 1..Len(supported_process_classes) :
          supported_process_classes[i] = info["class_name"]

\* line 137: the legacy check
IsLegacy(info) == Supported(info) /\ info["class_name"] # expected_process_class

\* lines 141-143 applied to the stanza
WithConfig(info) ==
    IF "config" \notin DOMAIN info THEN DictUpdate(info, [config |-> "{}"]) ELSE info

\* lines 135-143: the stanza as the updates leave it
Normalized(info) ==
    IF Supported(info)
    THEN WithConfig(IF IsLegacy(info)
                    THEN DictUpdate(info, [class_name |-> expected_process_class])
                    ELSE info)
    ELSE info

\* lines 133-145: the descriptor returned; the updates are made on the
\* stanza held by the metadata
Resolve ==
    /\ proxy_info' = IF Truthy(MetadataGet)
                     THEN [none |-> FALSE, info |-> Normalized(MetadataGet.info)]
                     ELSE MetadataGet
    /\ metadata' = IF Truthy(MetadataGet)
                   THEN DictUpdate(metadata, [process_proxy |-> Normalized(MetadataGet.info)])
                   ELSE metadata
    /\ provider_warnings' = IF Truthy(MetadataGet) /\ IsLegacy(MetadataGet.info)
                            THEN provider_warnings + 1
                            ELSE provider_warnings

\* lines 129-145
get_proxy_info ==
    /\ Enter("_get_proxy_info", 0)
    /\ Resolve
    /\ calls' = <<>>
    /\ err' = "none"
    /\ pc' = "idle"
    /\ UNCHANGED <<kernel, lifecycle_manager, sigint_value, restarting,
                   lifecycle_info, alt_sigint, kernel_id, kernel_connections,
                   activity_stream, instances, warnings>>
    /\ UNCHANGED <<supported_process_classes, expected_process_class>>
    /\ UNCHANGED <<connVars, envVars, cmdVars, procVars>>

\* lines 97-101: launch resolves the descriptor and gives up without one
launch ==
    /\ Enter("launch", 0)
    /\ Resolve
    /\ calls' = <<>>
    /\ IF proxy_info'.none
       THEN err' = "RuntimeError" /\ pc' = "idle"
       ELSE err' = "none" /\ pc' = "provider_launch"
    /\ UNCHANGED <<kernel, lifecycle_manager, sigint_value, restarting,
                   lifecycle_info, alt_sigint, kernel_id, kernel_connections,
                   activity_stream, instances, warnings>>
    /\ UNCHANGED <<supported_process_classes, expected_process_class>>
    /\ UNCHANGED <<connVars, envVars, cmdVars, procVars>>

\* lines 109-114: the keyword arguments launch passes on
LaunchKwargs == {"kernelspec", "proxy_info", "cwd", "kernel_params", "app_config"}

\* line 114: RemoteKernelManager.launch(**kwargs) constructs the coordinator
\* (manager.py 30-49) and starts the kernel; lifecycle_info is
\* kwargs.get('lifecycle_info'), and start_kernel reads it at line 88
launch_RemoteKernelManager_launch ==
    /\ pc = "provider_launch"
    /\ lifecycle_info' = IF "lifecycle_info" \in LaunchKwargs
                         THEN proxy_info.info["class_name"]
                         ELSE NoLifecycleInfo
    /\ env' = get_kernel_username(get_kernel_id(MergedEnv).env).env
    /\ kernel_id' = get_kernel_id(MergedEnv).ret
    /\ kernel_username' = get_kernel_username(get_kernel_id(MergedEnv).env).ret
    /\ calls' = Append(calls, Call("RemoteKernelManager.launch", 0))
    /\ err' = IF lifecycle_info' = NoLifecycleInfo THEN "AttributeError" ELSE "none"
    /\ pc' = "idle"
    /\ UNCHANGED <<kernel, lifecycle_manager, sigint_value, restarting,
                   alt_sigint, kernel_connections, activity_stream, instances,
                   warnings, op, arg>>
    /\ UNCHANGED <<kernel_spec_env, legacy_env, kernel_params_env, app_config, returned>>
    /\ UNCHANGED <<connVars, cmdVars, providerVars, procVars>>

\* a provider class and a kernelspec, no coordinator yet
InitProvider ==
    /\ kernel = None
    /\ lifecycle_manager = None
    /\ sigint_value = None
    /\ restarting = FALSE
    /\ lifecycle_info = NoLifecycleInfo
    /\ alt_sigint = NoAlt
    /\ kernel_id = None
    /\ kernel_connections = <<>>
    /\ activity_stream = FALSE
    /\ instances = <<>>
    /\ warnings = 0
    /\ pc = "idle"
    /\ op = "new"
    /\ arg = 0
    /\ err = "none"
    /\ calls = <<>>
    /\ remote_address = None
    /\ ConnInit
    /\ kernel_spec_env = <<>>
    /\ legacy_env = <<>>
    /\ kernel_params_env = <<>>
    /\ app_config = <<>>
    /\ env = <<>>
    /\ kernel_username = None
    /\ returned = None
    /\ CmdInit
    /\ metadata \in Metadatas
    /\ supported_process_classes \in SupportedLists
    /\ expected_process_class \in {"Foo", "Bar"}
    /\ proxy_info = [none |-> TRUE, info |-> <<>>]
    /\ provider_warnings = 0
    /\ ProcInit

NextProvider ==
    \/ get_proxy_info
    \/ launch
    \/ launch_RemoteKernelManager_launch

\* descriptor resolution and launch through a provider
SpecProvider == InitProvider /\ [][NextProvider]_vars

\* ---------------- RemoteKernelManager.launch ----------------

\* the connection_info attribute of a lifecycle manager whose launch_process
\* has returned
ConnectionInfo(lm) == 10 * lm

\* lines 53-54: the class is instantiated with the keyword arguments
RemoteKernelManager_launch ==
    /\ pc = "new"
    /\ op' = "RemoteKernelManager.launch"
    /\ env' = get_kernel_username(get_kernel_id(MergedEnv).env).env
    /\ kernel_spec_env' = kernel_spec_env
    /\ kernel_id' = get_kernel_id(MergedEnv).ret
    /\ kernel_username' = get_kernel_username(get_kernel_id(MergedEnv).env).ret
    /\ pc' = "launch_start"
    /\ UNCHANGED <<kernel, lifecycle_manager, sigint_value, restarting,
                   lifecycle_info, alt_sigint, kernel_connections,
                   activity_stream, instances, warnings, arg, err, calls>>
    /\ UNCHANGED <<legacy_env, kernel_params_env, app_config, returned>>
    /\ UNCHANGED <<connVars, cmdVars, providerVars, procVars>>

\* line 55: kernel_manager.start_kernel()
launch_start_kernel ==
    /\ pc = "launch_start"
    /\ StartKernelBody
    /\ UNCHANGED <<op, arg>>

\* line 56: return kernel_manager.lifecycle_manager.connection_info, kernel_manager
launch_return ==
    /\ pc = "launch_return"
    /\ returned' = ConnectionInfo(lifecycle_manager)
    /\ pc' = "idle"
    /\ UNCHANGED <<kernel, lifecycle_manager, sigint_value, restarting,
                   lifecycle_info, alt_sigint, kernel_id, kernel_connections,
                   activity_stream, instances, warnings, op, arg, err, calls>>
    /\ UNCHANGED <<kernel_spec_env, legacy_env, kernel_params_env, app_config,
                   env, kernel_username>>
    /\ UNCHANGED <<connVars, cmdVars, providerVars, procVars>>

\* the kernelspec argv of the launches considered
LaunchArgvs ==
    { <<>>,
      << <<Lit("python")>>, <<Brace("kernel_id")>>,
         <<Lit("--addr="), Brace("response_address")>> >>,
      << <<Lit("k")>>, <<Brace("memory")>> >> }

\* the keyword arguments of launch: a kernelspec, lifecycle_info or none,
\* kernel_params
InitLaunch ==
    /\ kernel = None
    /\ lifecycle_manager = None
    /\ sigint_value = None
    /\ restarting = FALSE
    /\ lifecycle_info \in ClassNames \cup {NoLifecycleInfo}
    /\ alt_sigint = NoAlt
    /\ kernel_id = None
    /\ kernel_connections = <<>>
    /\ activity_stream = FALSE
    /\ instances = <<>>
    /\ warnings = 0
    /\ pc = "new"
    /\ op = "new"
    /\ arg = 0
    /\ err = "none"
    /\ calls = <<>>
    /\ remote_address \in {None, 1}
    /\ ConnInit
    /\ kernel_spec_env \in Dicts({"KERNEL_ID"}, EnvValues)
    /\ legacy_env = <<>>
    /\ kernel_params_env = <<>>
    /\ app_config = <<>>
    /\ env = <<>>
    /\ kernel_username = None
    /\ returned = None
    /\ argv \in LaunchArgvs
    /\ kernel_params \in ParamDicts
    /\ kernel_cmd = <<>>
    /\ ProviderInit
    /\ ProcInit

NextLaunch ==
    \/ RemoteKernelManager_launch
    \/ launch_start_kernel
    \/ launch_return
    \/ start_kernel
    \/ start_kernel_format_kernel_cmd
    \/ \E ok \in BOOLEAN : start_kernel_launch_process(ok)
    \/ \E ok \in BOOLEAN : kill(ok)
    \/ \E ok \in BOOLEAN : kill_kernel_kill(ok)
    \/ \E ok \in BOOLEAN : cleanup(ok)
    \/ \E ok \in BOOLEAN : cleanup_lifecycle_manager_cleanup(ok)
    \/ cleanup_detach

\* a kernel launched through RemoteKernelManager.launch, then killed and
\* cleaned up
SpecLaunch == InitLaunch /\ [][NextLaunch]_vars

\* ---------------- wait ----------------

\* the timeouts a caller passes: None, or a number of seconds
Timeouts == {None, 0, 5}

\* lines 106-115: the timeout is dropped, the handle is asked to wait
wait(timeout) ==
    /\ Enter("wait", timeout)
    /\ IF kernel = None
       THEN calls' = <<>> /\ err' = "AttributeError" /\ pc' = "idle"
       ELSE calls' = <<Call("wait", kernel)>> /\ err' = "none" /\ pc' = "waiting"
    /\ UNCHANGED <<kernel, lifecycle_manager, sigint_value, restarting,
                   lifecycle_info, alt_sigint, kernel_id, kernel_connections,
                   activity_stream, instances, warnings>>
    /\ UNCHANGED <<connVars, envVars, cmdVars, providerVars, procVars>>

\* the handle's wait() blocks until the process has exited
KernelWaitReturns == exited

\* wait that gives up when a timeout was given
wait_kernel_wait_timed(ok) ==
    /\ pc = "waiting"
    /\ ok => (KernelWaitReturns \/ arg # None)
    /\ err' = IF ok THEN "none" ELSE "CollaboratorError"
    /\ pc' = "idle"
    /\ UNCHANGED <<kernel, lifecycle_manager, sigint_value, restarting,
                   lifecycle_info, alt_sigint, kernel_id, kernel_connections,
                   activity_stream, instances, warnings, op, arg, calls>>
    /\ UNCHANGED <<connVars, envVars, cmdVars, providerVars, procVars>>

\* line 115: self.kernel.wait() returns, or raises
wait_kernel_wait(ok) ==
    /\ pc = "waiting"
    /\ ok => KernelWaitReturns
    /\ err' = IF ok THEN "none" ELSE "CollaboratorError"
    /\ pc' = "idle"
    /\ UNCHANGED <<kernel, lifecycle_manager, sigint_value, restarting,
                   lifecycle_info, alt_sigint, kernel_id, kernel_connections,
                   activity_stream, instances, warnings, op, arg, calls>>
    /\ UNCHANGED <<connVars, envVars, cmdVars, providerVars, procVars>>

\* the kernel process exits, whatever the coordinator is doing
ProcessExit ==
    /\ kernel # None
    /\ ~exited
    /\ exited' = TRUE
    /\ UNCHANGED <<kernel, lifecycle_manager, sigint_value, restarting,
                   lifecycle_info, alt_sigint, kernel_id, kernel_connections,
                   activity_stream, instances, warnings, pc, op, arg, err, calls>>
    /\ UNCHANGED <<launch_args, spawn, spawned, lm_cleanups>>
    /\ UNCHANGED <<connVars, envVars, cmdVars, providerVars>>

\* a coordinator of a local or a remote kernel
InitWait ==
    /\ kernel = None
    /\ lifecycle_manager = None
    /\ sigint_value = None
    /\ restarting = FALSE
    /\ lifecycle_info \in {"Local", "Remote"}
    /\ alt_sigint = NoAlt
    /\ kernel_id = 1
    /\ kernel_connections = <<>>
    /\ activity_stream = FALSE
    /\ instances = <<>>
    /\ warnings = 0
    /\ pc = "idle"
    /\ op = "init"
    /\ arg = 0
    /\ err = "none"
    /\ calls = <<>>
    /\ remote_address = None
    /\ ConnInit
    /\ EnvInit
    /\ CmdInit
    /\ ProviderInit
    /\ ProcInit

NextWait ==
    \/ start_kernel
    \/ start_kernel_format_kernel_cmd
    \/ \E ok \in BOOLEAN : start_kernel_launch_process(ok)
    \/ \E timeout \in Timeouts : wait(timeout)
    \/ \E ok \in BOOLEAN : wait_kernel_wait(ok)
    \/ ProcessExit
    \/ \E ok \in BOOLEAN : kill(ok)
    \/ \E ok \in BOOLEAN : kill_kernel_kill(ok)
    \/ \E ok \in BOOLEAN : cleanup(ok)
    \/ \E ok \in BOOLEAN : cleanup_lifecycle_manager_cleanup(ok)
    \/ cleanup_detach

\* waiting for the kernel process; a wait() of the handle that can return
\* does return
SpecWait == InitWait /\ [][NextWait]_vars /\ WF_vars(wait_kernel_wait(TRUE))

\* ---------------- launcher.launch_kernel ----------------

\* subprocess.PIPE (line 46), a value that is no caller's stream and not None
PIPE == -2

\* os.defpath (line 80)
DefPath == 9

\* os.environ of the serving process (line 49)
OsEnviron == ("PATH" :> 7) @@ ("HOME" :> 8)

\* how Popen(cmd, **kwargs) ends: a process, or one of its failures
PopenFailures == {"OSError", "TypeError"}

\* lines 46-67: the keyword arguments handed to Popen
PopenKwargs(a) ==
    LET stdin_ == IF a.stdin = None THEN PIPE ELSE a.stdin
        env_ == IF a.env.none THEN OsEnviron ELSE a.env.map
        main_args == [k \in {"stdin", "stdout", "stderr", "cwd"} |->
                         CASE k = "stdin" -> stdin_
                           [] k = "stdout" -> a.stdout
                           [] k = "stderr" -> a.stderr
                           [] k = "cwd" -> a.cwd]
    IN  ("start_new_session" :> 1) @@ ("env" :> env_) @@ main_args @@ a.kw

\* the logged options with the environment left in
without_env_leaking(kwargs) == kwargs

\* line 79: every spawn option but the environment map
without_env(kwargs) == [key \in DOMAIN kwargs \ {"env"} |-> kwargs[key]]

\* lines 11-88: one Popen; on failure one error record and the failure again
launch_kernel(outcome) ==
    /\ spawned = NotSpawned
    /\ LET kwargs == PopenKwargs(spawn)
           attempt == [cmd |-> spawn.cmd, kwargs |-> kwargs, result |-> outcome]
       IN  IF outcome \in PopenFailures
           THEN spawned' = [popen |-> <<attempt>>,
                            log |-> <<[level |-> "error",
                                       cmd |-> spawn.cmd,
                                       path |-> DictGet(kwargs["env"], "PATH", DefPath),
                                       options |-> without_env(kwargs)]>>,
                            raised |-> outcome,
                            proc |-> None,
                            stdin_closed |-> FALSE]
           ELSE spawned' = [popen |-> <<attempt>>,
                            log |-> <<>>,
                            raised |-> "none",
                            proc |-> Len(<<attempt>>),
                            stdin_closed |-> (spawn.stdin = None)]
    /\ UNCHANGED <<kernel, lifecycle_manager, sigint_value, restarting,
                   lifecycle_info, alt_sigint, kernel_id, kernel_connections,
                   activity_stream, instances, warnings, pc, op, arg, err, calls>>
    /\ UNCHANGED <<exited, launch_args, spawn, lm_cleanups>>
    /\ UNCHANGED <<connVars, envVars, cmdVars, providerVars>>

\* the values of the launcher's arguments
SpawnValues == {1, 2}

\* the environments a caller passes: none, or a map with or without PATH
\* and with or without a secret
SpawnEnvs ==
    {[none |-> TRUE, map |-> <<>>]} \cup
    {[none |-> FALSE, map |-> m] : m \in Dicts({"PATH", "TOKEN"}, SpawnValues)}

\* a call of launch_kernel with any arguments
InitLauncher ==
    /\ kernel = None
    /\ lifecycle_manager = None
    /\ sigint_value = None
    /\ restarting = FALSE
    /\ lifecycle_info = "Local"
    /\ alt_sigint = NoAlt
    /\ kernel_id = 1
    /\ kernel_connections = <<>>
    /\ activity_stream = FALSE
    /\ instances = <<>>
    /\ warnings = 0
    /\ pc = "idle"
    /\ op = "init"
    /\ arg = 0
    /\ err = "none"
    /\ calls = <<>>
    /\ remote_address = None
    /\ ConnInit
    /\ EnvInit
    /\ CmdInit
    /\ ProviderInit
    /\ exited = FALSE
    /\ launch_args = [kernel_cmd |-> <<>>, env |-> <<>>]
    /\ lm_cleanups = <<>>
    /\ spawned = NotSpawned
    /\ spawn \in [cmd : SpawnValues,
                  stdin : {None} \cup SpawnValues,
                  stdout : {None},
                  stderr : {None, 1},
                  env : SpawnEnvs,
                  cwd : {None, 1},
                  kw : Dicts({"close_fds"}, {0, 1})]

NextLauncher == \E outcome \in {"ok"} \cup PopenFailures : launch_kernel(outcome)

SpecLauncher == InitLauncher /\ [][NextLauncher]_vars

\* ---------------- teardown ----------------

\* a coordinator of a local or a remote kernel, before its start
InitTeardown == InitWait

NextTeardown ==
    \/ start_kernel
    \/ start_kernel_format_kernel_cmd
    \/ \E ok \in BOOLEAN : start_kernel_launch_process(ok)
    \/ \E ok \in BOOLEAN : kill(ok)
    \/ \E ok \in BOOLEAN : kill_kernel_kill(ok)
    \/ \E ok \in BOOLEAN : cleanup(ok)
    \/ \E ok \in BOOLEAN : cleanup_lifecycle_manager_cleanup_recorded(ok)
    \/ cleanup_detach

\* starts, kills and cleanups, with the cleanup() calls of every lifecycle
\* manager instance on record
SpecTeardown == InitTeardown /\ [][NextTeardown]_vars

\* ======================= properties =======================

\* the method has called fn on a collaborator
Called(fn) == \E i \in 1..Len(calls) : calls[i].fn = fn

\* the call c was made before position j of calls
CalledBefore(c, j) == \E i \in 1..(j - 1) : calls[i] = c

\* C1: a cleanup() entered while the lifecycle-manager reference is empty
\* calls neither shutdown_listener nor the lifecycle manager's cleanup,
\* changes no coordinator field and raises nothing.
C1_CleanupIdempotent ==
    [][(pc = "idle" /\ op' = "cleanup" /\ lifecycle_manager = None)
        => /\ calls' = <<>>
           /\ err' = "none"
           /\ pc' = "idle"
           /\ UNCHANGED <<coordinator, instances, warnings>>]_vars

\* a cleanup() that found nothing to act on, after an earlier one detached
\* the lifecycle manager of a started kernel
C1_Witness ==
    /\ op = "cleanup" /\ pc = "idle" /\ err = "none" /\ calls = <<>>
    /\ lifecycle_manager = None
    /\ kernel # None

\* C2: in a kill() on a coordinator whose lifecycle manager is remote, the
\* hard kill of the kernel handle is never issued unless this kill() has
\* called shutdown_listener on that lifecycle manager before it.
C2_ListenerBeforeKill ==
    (op = "kill" /\ IsRemote(lifecycle_manager))
        => \A j \in 1..Len(calls) :
              calls[j].fn = "kill"
                  => CalledBefore(Call("shutdown_listener", lifecycle_manager), j)

C2_Witness ==
    /\ op = "kill" /\ pc = "idle" /\ err = "none"
    /\ IsRemote(lifecycle_manager)
    /\ calls = <<Call("shutdown_listener", lifecycle_manager), Call("kill", kernel)>>

\* C3: in a cleanup() with a lifecycle manager attached, the listener of a
\* remote lifecycle manager is shut down before the lifecycle manager's own
\* cleanup is called, the reference is emptied only after that cleanup has
\* been called, and when cleanup() has returned the reference is empty.
C3_Order ==
    op = "cleanup" =>
        /\ \A j \in 1..Len(calls) :
              (calls[j].fn = "cleanup" /\ instances[calls[j].arg] = "Remote")
                  => CalledBefore(Call("shutdown_listener", calls[j].arg), j)
        /\ (pc = "idle" /\ err = "none") => lifecycle_manager = None

C3_Detach ==
    (lifecycle_manager # None /\ lifecycle_manager' = None)
        => /\ op = "cleanup"
           /\ calls # <<>>
           /\ calls[Len(calls)] = Call("cleanup", lifecycle_manager)

C3_CleanupOrder == []C3_Order /\ [][C3_Detach]_vars

C3_Witness ==
    /\ op = "cleanup" /\ pc = "idle" /\ err = "none"
    /\ lifecycle_manager = None
    /\ Len(calls) = 2
    /\ calls[1].fn = "shutdown_listener" /\ calls[2].fn = "cleanup"
    /\ calls[1].arg = calls[2].arg

\* C4: signal(signum) and interrupt() entered while there is no kernel
\* handle raise the RuntimeError, send no signal and change no coordinator
\* field, the cached interrupt signal included.
C4_SignalNoKernel ==
    [][(pc = "idle" /\ op' \in {"signal", "interrupt"} /\ kernel = None)
        => /\ err' = "RuntimeError"
           /\ calls' = <<>>
           /\ pc' = "idle"
           /\ UNCHANGED <<coordinator, instances, warnings>>]_vars

\* an interrupt refused after a launch that failed
C4_Witness ==
    /\ op \in {"signal", "interrupt"} /\ pc = "idle"
    /\ err = "RuntimeError" /\ calls = <<>>
    /\ kernel = None /\ lifecycle_manager # None

\* C5: kill() with no kernel handle raises the RuntimeError that signal()
\* raises there.
C5_KillNoKernel ==
    (op = "kill" /\ pc = "idle" /\ kernel = None /\ err # "CollaboratorError")
        => err = "RuntimeError"

\* C6: once set, the cached interrupt signal never changes, every later
\* interrupt sends it, and it is the declared signal when the declared
\* name is a signal of the signal table.
C6_Cached ==
    (sigint_value # None /\ SignalModule(alt_sigint).kind = "enum")
        => sigint_value = SignalModule(alt_sigint).value

C6_Step ==
    /\ sigint_value # None => sigint_value' = sigint_value
    /\ (pc = "idle" /\ op' \in {"signal", "interrupt"} /\ arg' = SIGINT
            /\ sigint_value # None)
        => calls' = <<Call("send_signal", sigint_value)>>

C6_ResolvedOnce == []C6_Cached /\ [][C6_Step]_vars

\* an interrupt sent after a restart_kernel call goes out as the alternate signal
C6_Witness ==
    /\ op = "interrupt" /\ pc = "idle" /\ err = "none"
    /\ alt_sigint = "SIGUSR1" /\ sigint_value = SIGUSR1
    /\ calls = <<Call("send_signal", SIGUSR1)>>
    /\ restarting

\* the declared name is not known to the signal table
DeclaredUnknown ==
    /\ alt_sigint \notin {NoAlt, ""}
    /\ SignalModule(alt_sigint).kind \in {"missing", "function"}

C8_OtherSignals ==
    [][(pc = "idle" /\ op' = "signal" /\ arg' # SIGINT /\ kernel # None)
        => /\ calls' = <<Call("send_signal", arg')>>
           /\ sigint_value' = sigint_value
           /\ warnings' = warnings]_vars

\* SIGTERM goes out as SIGTERM although an alternate interrupt signal is cached
C8_Witness ==
    /\ op = "signal" /\ arg = SIGTERM /\ pc = "idle"
    /\ calls = <<Call("send_signal", SIGTERM)>>
    /\ sigint_value = SIGUSR1

\* C9: restart_kernel(now=True) on a remote lifecycle manager with a
\* connection count of 0 (or no entry) for this kernel_id shuts the kernel
\* down through the parent and calls neither the underlying restart nor
\* start_watching_activity nor refresh_session.
C9_RestartDenied ==
    (op = "restart_kernel" /\ arg = 1 /\ IsRemote(lifecycle_manager)
        /\ DictGet(kernel_connections, kernel_id, 0) = 0 /\ pc # "restart_gate")
        => /\ pc = "idle"
           /\ calls = <<Call("_kernel_connections.get", kernel_id),
                        Call("shutdown_kernel", kernel_id)>>
           /\ ~Called("super.restart_kernel")
           /\ ~Called("start_watching_activity")
           /\ ~Called("refresh_session")

\* denied for a kernel_id the connection table has no entry for
C9_Witness ==
    /\ op = "restart_kernel" /\ arg = 1 /\ pc = "idle" /\ err = "none"
    /\ IsRemote(lifecycle_manager)
    /\ kernel_id \notin DOMAIN kernel_connections
    /\ Called("shutdown_kernel")

\* C10: when restart_kernel has returned, by either path, restarting is false.
C10_RestartingCleared ==
    (op = "restart_kernel" /\ pc = "idle" /\ err = "none") => restarting = FALSE

\* C11: write_connection_file selects ports and goes on to write the file
\* exactly when (the lifecycle manager is local or no response address is
\* set) and the coordinator is not restarting; otherwise it calls nothing
\* and leaves the port fields alone.
C11_WriteGate ==
    [][(pc = "idle" /\ op' = "write_connection_file")
        => IF (IsLocal(lifecycle_manager) \/ response_address = None) /\ ~restarting
           THEN /\ calls' = <<Call("select_ports", lifecycle_manager)>>
                /\ (pc' = "write_super" \/ err' = "CollaboratorError")
           ELSE /\ calls' = <<>>
                /\ err' = "none"
                /\ pc' = "idle"
                /\ ports' = ports]_vars

\* the keys an allow-list of app_config names
AllowListed == UNION {app_config[c] : c \in DOMAIN app_config}

\* the key is in an override map and may pass
Survives(k) ==
    /\ k \in DOMAIN legacy_env \cup DOMAIN kernel_params_env
    /\ k \in {"KERNEL_ID", "KERNEL_USERNAME", "KERNEL_LANG"} \cup AllowListed

\* C12: in the resolved environment a key is there only if the kernelspec
\* env has it, an override that passes the filter (KERNEL_ prefix or
\* allow-list, an absent allow-list being empty) brings it, or it is
\* KERNEL_ID or KERNEL_USERNAME; a key of the kernelspec env that no passing
\* override has keeps its kernelspec value.
C12_OnlyAllowedOverrides ==
    pc # "new" =>
        \A k \in EnvKeys :
            /\ k \in DOMAIN env =>
                  \/ k \in DOMAIN kernel_spec_env
                  \/ Survives(k)
                  \/ k \in {"KERNEL_ID", "KERNEL_USERNAME"}
            /\ (k \in DOMAIN kernel_spec_env /\ ~Survives(k)) =>
                  (k \in DOMAIN env /\ env[k] = kernel_spec_env[k])

\* PATH overridden by both maps with no allow-list: the kernelspec's PATH stays
C12_Witness ==
    /\ pc = "idle" /\ op = "__init__"
    /\ app_config = <<>>
    /\ "PATH" \in DOMAIN kernel_spec_env /\ kernel_spec_env["PATH"] = 1
    /\ "PATH" \in DOMAIN legacy_env /\ legacy_env["PATH"] = 2
    /\ "PATH" \in DOMAIN kernel_params_env /\ kernel_params_env["PATH"] = 2
    /\ env["PATH"] = 1

\* C13: for a key that passes the filter the resolved value is the
\* call-time value, else the legacy value, else the kernelspec default.
C13_Precedence ==
    pc # "new" =>
        \A k \in {"KERNEL_ID", "KERNEL_USERNAME", "KERNEL_LANG"} \cup AllowListed :
            IF k \in DOMAIN kernel_params_env
            THEN k \in DOMAIN env /\ env[k] = kernel_params_env[k]
            ELSE IF k \in DOMAIN legacy_env
            THEN k \in DOMAIN env /\ env[k] = legacy_env[k]
            ELSE k \in DOMAIN kernel_spec_env
                    => (k \in DOMAIN env /\ env[k] = kernel_spec_env[k])

\* an allow-listed PATH that all three maps give: the call-time value wins
C13_Witness ==
    /\ pc = "idle" /\ op = "__init__"
    /\ "PATH" \in AllowListed
    /\ "PATH" \in DOMAIN kernel_spec_env /\ kernel_spec_env["PATH"] = 1
    /\ "PATH" \in DOMAIN legacy_env /\ legacy_env["PATH"] = 1
    /\ "PATH" \in DOMAIN kernel_params_env /\ kernel_params_env["PATH"] = 2
    /\ env["PATH"] = 2

\* C14: the kernelspec's env is never changed, neither by the constructor
\* nor by a later operation.
C14_KernelSpecEnvKept == [][kernel_spec_env' = kernel_spec_env]_vars

\* the identity was written into the copy and the kernel has been cleaned up
C14_Witness ==
    /\ pc = "idle" /\ op = "cleanup" /\ lifecycle_manager = None /\ kernel # None
    /\ kernel_spec_env = <<>>
    /\ env = [KERNEL_ID |-> NewUuid, KERNEL_USERNAME |-> OsUser]

\* C15 as claimed: kernel_id is a UUIDv4 whatever the environments hold.
C15_AlwaysUuid4 == pc # "new" => kernel_id \in Uuid4Strings

\* KERNEL_ID as the merge leaves it: call-time, else legacy, else kernelspec
SuppliedKernelId ==
    IF "KERNEL_ID" \in DOMAIN kernel_params_env THEN kernel_params_env["KERNEL_ID"]
    ELSE IF "KERNEL_ID" \in DOMAIN legacy_env THEN legacy_env["KERNEL_ID"]
    ELSE IF "KERNEL_ID" \in DOMAIN kernel_spec_env THEN kernel_spec_env["KERNEL_ID"]
    ELSE None

\* C15: kernel_id is a generated UUIDv4 when neither the kernelspec env nor
\* an override gives KERNEL_ID; a KERNEL_ID that is given becomes kernel_id
\* as it is.
C15_UuidOrSupplied ==
    pc # "new" =>
        IF SuppliedKernelId = None
        THEN kernel_id \in Uuid4Strings
        ELSE kernel_id = SuppliedKernelId

\* a caller's KERNEL_ID that is no UUID is the kernel_id
C15_Witness ==
    /\ pc = "idle" /\ op = "__init__"
    /\ "KERNEL_ID" \in DOMAIN kernel_params_env
    /\ kernel_params_env["KERNEL_ID"] \notin Uuid4Strings
    /\ kernel_id = kernel_params_env["KERNEL_ID"]

\* C16: the environment holds the identity the coordinator has, resolving
\* it again returns the same values and leaves the environment as it is.
C16_WrittenBack ==
    pc # "new" =>
        /\ "KERNEL_ID" \in DOMAIN env /\ env["KERNEL_ID"] = kernel_id
        /\ "KERNEL_USERNAME" \in DOMAIN env /\ env["KERNEL_USERNAME"] = kernel_username

C16_Again ==
    /\ (pc = "idle" /\ op' = "get_kernel_id")
          => (env' = env /\ returned' = kernel_id)
    /\ (pc = "idle" /\ op' = "get_kernel_username")
          => (env' = env /\ returned' = kernel_username)

C16_IdentityIdempotent == []C16_WrittenBack /\ [][C16_Again]_vars

\* a generated id resolved again after the kernel was started
C16_Witness ==
    /\ pc = "idle" /\ op = "get_kernel_id" /\ kernel # None
    /\ "KERNEL_ID" \notin DOMAIN kernel_spec_env
    /\ "KERNEL_ID" \notin DOMAIN kernel_params_env
    /\ returned = NewUuid /\ kernel_id = NewUuid /\ env["KERNEL_ID"] = NewUuid

\* C17: formatting never fails; the command has as many tokens as argv
\* followed by extra_arguments, in that order; in each token every
\* {identifier} the namespace has is replaced by the namespace value and
\* every other piece, an unmapped {identifier} included, is left as it is.
C17_Templating ==
    (pc = "idle" /\ op = "format_kernel_cmd") =>
        /\ err = "none"
        /\ Len(kernel_cmd) = Len(Cmd)
        /\ \A i \in 1..Len(Cmd) :
              /\ Len(kernel_cmd[i]) = Len(WithExecutable(Cmd)[i])
              /\ \A j \in 1..Len(Cmd[i]) :
                    IF Matched(Cmd[i][j]) /\ Cmd[i][j].text \in DOMAIN Namespace
                    THEN kernel_cmd[i][j] = Lit(Namespace[Cmd[i][j].text].text)
                    ELSE kernel_cmd[i][j] = WithExecutable(Cmd)[i][j]

\* C18: after resolution the descriptor has a config mapping, whatever the
\* stanza was: supported class, unsupported class, no class name, no stanza.
C18_ConfigPresent ==
    (pc = "idle" /\ op = "_get_proxy_info") =>
        (~proxy_info.none /\ "config" \in DOMAIN proxy_info.info)

\* C19: launching a kernelspec whose metadata has no process_proxy stanza
\* resolves to {class_name: first supported class, config: {}} and raises
\* nothing at resolution.
C19_DefaultDescriptor ==
    [][(pc = "idle" /\ op' = "launch" /\ "process_proxy" \notin DOMAIN metadata
            /\ supported_process_classes # <<>>)
        => /\ err' = "none"
           /\ ~proxy_info'.none
           /\ proxy_info'.info = [class_name |-> supported_process_classes[1],
                                  config |-> "{}"]]_vars

\* the stanza names a class that is not supported or not the expected one
LegacyOrUnsupported ==
    /\ "process_proxy" \in DOMAIN metadata
    /\ "class_name" \in DOMAIN metadata["process_proxy"]
    /\ \/ ~Supported(metadata["process_proxy"])
       \/ metadata["process_proxy"]["class_name"] # expected_process_class

\* C20: resolving a stanza whose class is unsupported or not the expected
\* one rewrites the class name to the expected class, leaves a config in
\* the descriptor, warns exactly once and does not stop the launch.
C20_LegacyNormalized ==
    [][(pc = "idle" /\ op' \in {"_get_proxy_info", "launch"} /\ LegacyOrUnsupported)
        => /\ err' = "none"
           /\ ~proxy_info'.none
           /\ proxy_info'.info["class_name"] = expected_process_class
           /\ "config" \in DOMAIN proxy_info'.info
           /\ provider_warnings' = provider_warnings + 1]_vars

\* C21: with a class name that cannot be imported, start_kernel raises the
\* ImportError, launch_process is never called, no lifecycle manager is
\* attached and no kernel handle is set.
C21_UnresolvableClass ==
    lifecycle_info = "Unresolvable" =>
        /\ kernel = None
        /\ lifecycle_manager = None
        /\ instances = <<>>
        /\ pc \notin {"start_format", "start_launch"}
        /\ ~Called("launch_process")
        /\ (op = "start_kernel" /\ pc = "idle") => err = "ImportError"

\* a start that failed on the import
C21_Witness ==
    /\ lifecycle_info = "Unresolvable"
    /\ op = "start_kernel" /\ pc = "idle" /\ err = "ImportError"
    /\ kernel = None /\ lifecycle_manager = None

\* C22: when launch has returned, what it returns is the connection_info of
\* the lifecycle manager it started; kill() leaves the lifecycle-manager
\* reference as it is, only cleanup() empties it, and on a launched kernel
\* neither raises unless a collaborator does.
C22_Returned ==
    /\ (op = "RemoteKernelManager.launch" /\ pc = "idle" /\ err = "none")
          => /\ lifecycle_manager # None
             /\ kernel = lifecycle_manager
             /\ returned = ConnectionInfo(lifecycle_manager)
    /\ (op \in {"kill", "cleanup"} /\ kernel # None)
          => err \in {"none", "CollaboratorError"}
    /\ (op = "cleanup" /\ pc = "idle" /\ err = "none") => lifecycle_manager = None

C22_KillKeeps ==
    /\ op' = "kill" => lifecycle_manager' = lifecycle_manager
    /\ (lifecycle_manager # None /\ lifecycle_manager' = None) => op' = "cleanup"

C22_LaunchKillCleanup == []C22_Returned /\ [][C22_KillKeeps]_vars

\* launched, killed with the lifecycle manager still attached
C22_Witness ==
    /\ op = "kill" /\ pc = "idle" /\ err = "none"
    /\ returned = ConnectionInfo(1)
    /\ lifecycle_manager = 1 /\ kernel = 1
    /\ calls[Len(calls)] = Call("kill", 1)

\* C26: the command is formatted only with the new lifecycle manager
\* attached; launch_process is called with the formatted command and the
\* coordinator's environment, at most once in a start and exactly once in a
\* start that succeeds; the kernel handle is set only by the step in which
\* launch_process returns.
C26_State ==
    /\ pc \in {"start_format", "start_launch"}
          => (lifecycle_manager = Len(instances) /\ lifecycle_manager # None)
    /\ pc = "start_launch" => (~FormatRaises /\ kernel_cmd = Formatted)
    /\ op \in {"start_kernel", "RemoteKernelManager.launch"}
          => /\ Cardinality({i \in 1..Len(calls) : calls[i].fn = "launch_process"}) <= 1
             /\ (pc \in {"idle", "launch_return"} /\ err = "none")
                   => calls = <<Call("launch_process", lifecycle_manager)>>

C26_Step ==
    /\ (Len(calls') > Len(calls) /\ calls'[Len(calls')].fn = "launch_process")
          => /\ pc = "start_launch"
             /\ launch_args' = [kernel_cmd |-> Formatted, env |-> env]
    /\ kernel' # kernel
          => /\ pc = "start_launch"
             /\ calls' = <<Call("launch_process", lifecycle_manager)>>
             /\ err' = "none"
             /\ kernel' = lifecycle_manager

C26_StartOrder == []C26_State /\ [][C26_Step]_vars

\* a start whose command had placeholders to fill
C26_Witness ==
    /\ op = "RemoteKernelManager.launch" /\ pc = "idle" /\ err = "none"
    /\ kernel = 1
    /\ Len(launch_args.kernel_cmd) = 3
    /\ launch_args.kernel_cmd[1] = <<Lit("sys.executable")>>
    /\ launch_args.kernel_cmd[2] = <<Lit(ToString(kernel_id))>>
    /\ launch_args.env = env

\* the three conditions of the gate
GateDenies ==
    /\ IsRemote(lifecycle_manager)
    /\ arg = 1
    /\ DictGet(kernel_connections, kernel_id, 0) = 0

\* C23: a restart_kernel that is past its gate has looked the connection
\* count up exactly when the lifecycle manager is remote and now is true;
\* unless all three conditions of the gate hold it has called no
\* shutdown_kernel and it calls the underlying restart_kernel.
C23_GateOnlyRemoteNowZero ==
    (op = "restart_kernel" /\ pc # "restart_gate") =>
        /\ Called("_kernel_connections.get") <=> (IsRemote(lifecycle_manager) /\ arg = 1)
        /\ ~GateDenies
              => /\ ~Called("shutdown_kernel")
                 /\ pc = "restart_super" \/ Called("super.restart_kernel")

\* an automatic restart of a local kernel nobody is connected to
C23_Witness ==
    /\ op = "restart_kernel" /\ arg = 1 /\ pc = "idle" /\ err = "none"
    /\ IsLocal(lifecycle_manager)
    /\ DictGet(kernel_connections, kernel_id, 0) = 0
    /\ calls = <<Call("super.restart_kernel", 1), Call("refresh_session", kernel_id)>>

\* the positions of calls at which fn was called
Positions(fn) == {i \in 1..Len(calls) : calls[i].fn = fn}

\* C24: in a restart_kernel the session refresh, for this kernel_id, comes
\* after the underlying restart_kernel and after start_watching_activity,
\* which comes after the underlying restart too; the refresh is called at
\* most once, exactly once when the restart went through without an error,
\* whatever the backend, and never without the underlying restart having
\* returned; restarting is cleared only by the step that made the refresh.
C24_Order ==
    op = "restart_kernel" =>
        /\ \A j \in Positions("refresh_session") :
              /\ calls[j].arg = kernel_id
              /\ CalledBefore(Call("super.restart_kernel", arg), j)
              /\ \A i \in Positions("start_watching_activity") : i < j
              /\ IsRemote(lifecycle_manager)
                    => CalledBefore(Call("start_watching_activity", kernel_id), j)
        /\ \A j \in Positions("start_watching_activity") :
              CalledBefore(Call("super.restart_kernel", arg), j)
        /\ Cardinality(Positions("refresh_session")) <= 1
        /\ (pc = "idle" /\ err = "none" /\ Called("super.restart_kernel"))
              => (Called("refresh_session") /\ ~restarting)
        /\ (err # "none" /\ calls[Len(calls)].fn = "super.restart_kernel")
              => ~Called("refresh_session")

C24_Clear ==
    (restarting /\ ~restarting')
        => /\ pc = "restart_refresh"
           /\ calls' = Append(calls, Call("refresh_session", kernel_id))
           /\ err' = "none"

C25_Flagged ==
    pc \in {"restart_gate", "restart_super", "restart_watch", "restart_refresh"}
        => restarting

C25_Skipped ==
    op' = "restart_kernel"
        => /\ ports' = ports
           /\ \A i \in 1..Len(calls') : calls'[i].fn # "select_ports"

C25_NoWriteInRestart == []C25_Flagged /\ [][C25_Skipped]_vars

\* a local kernel with no response address, restarted; the connection file
\* was not written again
C25_Witness ==
    /\ op = "restart_kernel" /\ pc = "idle" /\ err = "none"
    /\ IsLocal(lifecycle_manager) /\ response_address = None
    /\ Called("self.write_connection_file")
    /\ Called("super.restart_kernel")
    /\ ports = None

\* C27: whatever the timeout, wait() returns only when the kernel process
\* has exited, and once the process has exited a wait() in progress comes
\* to its end.
C27_ReturnsAfterExit ==
    (pc = "waiting" /\ pc' = "idle" /\ err' = "none") => exited

C28_SpawnFailure ==
    (spawned # NotSpawned /\ spawned.popen[1].result \in PopenFailures) =>
        /\ Len(spawned.popen) = 1
        /\ Len(spawned.log) = 1
        /\ spawned.log[1].level = "error"
        /\ spawned.log[1].cmd = spawn.cmd
        /\ spawned.log[1].path =
               (IF spawn.env.none
                THEN OsEnviron["PATH"]
                ELSE IF "PATH" \in DOMAIN spawn.env.map
                     THEN spawn.env.map["PATH"] ELSE DefPath)
        /\ DOMAIN spawned.log[1].options =
               {"stdin", "stdout", "stderr", "cwd", "start_new_session"}
                   \cup DOMAIN spawn.kw
        /\ \A key \in DOMAIN spawned.log[1].options :
               spawned.log[1].options[key] = spawned.popen[1].kwargs[key]
        /\ spawned.raised = spawned.popen[1].result
        /\ spawned.proc = None
        /\ ~spawned.stdin_closed

\* a spawn that failed with a secret in the environment it was given
C28_Witness ==
    /\ spawned # NotSpawned
    /\ spawned.raised = "OSError"
    /\ ~spawn.env.none
    /\ DOMAIN spawn.env.map = {"TOKEN"}
    /\ spawned.log[1].path = DefPath
    /\ DOMAIN spawn.kw = {"close_fds"}

\* C29: after a successful start, over any kill() and cleanup() calls the
\* lifecycle manager instance receives its own cleanup() at most once, and
\* cleanup() makes its calls only on the instance the coordinator still
\* refers to, never on a detached one.
C29_Once == kernel # None => DictGet(lm_cleanups, kernel, 0) <= 1

C29_NoCallDetached ==
    op' = "cleanup" =>
        \A i \in 1..Len(calls') :
            lifecycle_manager # None /\ calls'[i].arg = lifecycle_manager

C29_CleanupOncePerInstance == []C29_Once /\ [][C29_NoCallDetached]_vars

\* C30: cleanup() changes nothing but the lifecycle-manager reference: the
\* kernel handle, the cached interrupt signal, the restarting flag, the
\* environment and the identity stay as they were; so after a cleanup() the
\* handle is still held, and signal(), interrupt() and kill() issued then
\* reach the handle instead of ending in the "no kernel running" error.
C30_Frame ==
    op' = "cleanup" =>
        UNCHANGED <<kernel, sigint_value, restarting, env, kernel_id,
                    kernel_username>>

C30_SignalDelegated ==
    (pc = "idle" /\ op' \in {"signal", "interrupt"}
        /\ lifecycle_manager = None /\ kernel # None)
        => /\ err' # "RuntimeError"
           /\ Len(calls') = 1
           /\ calls'[1].fn = "send_signal"

C30_KillDelegated ==
    (pc = "kill_kernel" /\ lifecycle_manager = None /\ kernel # None)
        => /\ err' \notin {"RuntimeError", "AttributeError"}
           /\ calls' = <<Call("kill", kernel)>>

C30_CleanupKeepsKernel ==
    /\ [][C30_Frame]_vars
    /\ [][C30_SignalDelegated]_vars
    /\ [][C30_KillDelegated]_vars

\* an interrupt delivered to the handle after the lifecycle manager was detached
C30_Witness ==
    /\ op = "interrupt" /\ pc = "idle" /\ err = "none"
    /\ lifecycle_manager = None /\ kernel # None
    /\ calls = <<Call("send_signal", sigint_value)>>
    /\ Len(instances) = 1

\* C31: a launch_process that fails during start leaves the error with the
\* caller, the lifecycle manager attached and the kernel handle unset; the
\* cleanup() that follows stops the listener of a remote lifecycle manager,
\* calls the lifecycle manager's cleanup() exactly once and detaches it.
C31_LaunchFailed ==
    (pc = "start_launch" /\ err' = "CollaboratorError")
        => /\ pc' = "idle"
           /\ lifecycle_manager' = lifecycle_manager
           /\ lifecycle_manager' # None
           /\ kernel' = kernel
           /\ kernel' # lifecycle_manager'

C31_Released ==
    (op' = "cleanup" /\ pc' = "idle"
        /\ lifecycle_manager # None /\ kernel # lifecycle_manager)
        => /\ lifecycle_manager' = None
           /\ DictGet(lm_cleanups', lifecycle_manager, 0) = 1
           /\ IsRemote(lifecycle_manager) =>
                  calls'[1] = Call("shutdown_listener", lifecycle_manager)

C31_FailedLaunchReleased ==
    /\ [][C31_LaunchFailed]_vars
    /\ [][C31_Released]_vars

\* C32: when a restart_kernel call has ended in an error, restarting is
\* false, so that writing the connection file is not left suppressed.
C32_FailedRestartCleared ==
    (op = "restart_kernel" /\ pc = "idle" /\ err # "none") => ~restarting

====
